---------------------------- MODULE Spec2Model ----------------------------
(***************************************************************************)
(* A model of the Ahrie AI chatbot back end (src/ahrie-ai): the Telegram   *)
(* webhook receiver, the message handler, the agents' process() methods,   *)
(* the keyword intent classifier, the coordinator's response formatter,    *)
(* the rate-limit middleware and the database pool holder.                 *)
(*                                                                         *)
(* The subsystems do not share state, so each has its own group of         *)
(* variables, its own initial predicate and next-state relation, and a     *)
(* specification (SpecIntent, SpecFormat, ...) that runs it while the      *)
(* other groups stay at their initial values.  Spec is their composition.  *)
(*                                                                         *)
(* Text is modelled by TLA+ strings.  A code point outside ASCII is        *)
(* written "{uXXXX}" (its code point in lower-case hex); such an escape    *)
(* only ever occurs whole, so substring tests on the escaped text agree    *)
(* with Python's tests on the code points.                                 *)
(***************************************************************************)
EXTENDS Integers, Sequences, FiniteSets, TLC

VARIABLES
    \* ---- AhrieTeamOrchestratorV2._analyze_query_intent ----
    query,              \* the query text a caller is about to analyse
    typed,              \* how many fragments of it have been typed
    analysis,           \* <<the dict the last call returned>>, <<>> before any call
    \* ---- CoordinatorAgent._format_response ----
    fmt_result,         \* the `result` argument handed to _format_response
    fmt_output,         \* <<the string the last call returned>>, or <<>>
    \* ---- database/connection.py ----
    db_pool,            \* _db_pool: 0 is None, n > 0 the n-th pool created
    pools_created,      \* how many pools asyncpg.create_pool has handed out
    pools_open,         \* the pools created and not closed
    db_log,             \* the calls made so far: [op, outcome, pool]
    \* ---- api/middleware.py: RateLimitMiddleware ----
    max_requests,       \* self.max_requests
    window_seconds,     \* self.window_seconds
    request_counts,     \* self.request_counts: client IP -> list of timestamps
    now,                \* the clock time.time() reads
    rate_log,           \* the requests dispatched so far, in order of arrival
    \* ---- api/main.py and api/routes/webhook.py ----
    settings,           \* settings.DEBUG, settings.TELEGRAM_WEBHOOK_SECRET
    app_phase,          \* "starting", "serving" (lifespan has yielded) or "failed"
    app_state,          \* the attributes set on app.state
    registered_secret,  \* <<the secret_token set_webhook registered>>, or <<>>
    background_tasks,   \* the tasks added by add_task, in order
    web_log,            \* the requests telegram_webhook has answered
    \* ---- bot/handlers.py ----
    runs,               \* the calls of process_telegram_message, each with its position
    \* ---- agents: coordinator.py, orchestrator.py, team_orchestrator_v2.py ----
    calls,                  \* the calls of the three process methods
    conversation_history,   \* per agent: self.conversation_history
    team_state,             \* AhrieTeamOrchestratorV2.team_state
    \* ---- translations/i18n.py ----
    translations,    \* TranslationManager.translations, as loaded
    translated,   \* the calls of translate, with their results
    \* ---- agents/team_orchestrator_v2.py: __init__ ----
    environ,    \* os.environ: the four key variables, "" when unset
    settings_keys,    \* the same four attributes of settings, "" when None or absent
    langdb_initialized,    \* the module's flag: pylangdb's init() succeeded at import
    constructed,   \* the constructions of AhrieTeamOrchestratorV2, with how they ended
    \* ---- agents/team_orchestrator_v2.py: _search_youtube_reviews_api ----
    searches    \* the calls of _search_youtube_reviews_api, with what they found and returned

intentVars == <<query, typed, analysis>>
formatVars == <<fmt_result, fmt_output>>
dbVars == <<db_pool, pools_created, pools_open, db_log>>
rateVars == <<max_requests, window_seconds, request_counts, now, rate_log>>
webVars == <<settings, app_phase, app_state, registered_secret, background_tasks, web_log>>
handlerVars == <<runs>>
agentVars == <<calls, conversation_history, team_state>>
translateVars == <<translations, translated>>
constructVars == <<environ, settings_keys, langdb_initialized, constructed>>
reviewVars == <<searches>>
vars == <<intentVars, formatVars, dbVars, rateVars, webVars, handlerVars, agentVars, translateVars, constructVars, reviewVars>>

\* What a step of one subsystem leaves alone: the variables of the others.
notTranslate == <<intentVars, formatVars, dbVars, rateVars, webVars, handlerVars, agentVars, constructVars, reviewVars>>
notConstruct == <<intentVars, formatVars, dbVars, rateVars, webVars, handlerVars, agentVars, translateVars, reviewVars>>
notReviews == <<intentVars, formatVars, dbVars, rateVars, webVars, handlerVars, translateVars, constructVars>>
notIntent == <<formatVars, dbVars, rateVars, webVars, handlerVars, agentVars, translateVars, constructVars, reviewVars>>
notFormat == <<intentVars, dbVars, rateVars, webVars, handlerVars, agentVars, translateVars, constructVars, reviewVars>>
notDb == <<intentVars, formatVars, rateVars, webVars, handlerVars, agentVars, translateVars, constructVars, reviewVars>>
notRate == <<intentVars, formatVars, dbVars, webVars, handlerVars, agentVars, translateVars, constructVars, reviewVars>>
notWeb == <<intentVars, formatVars, dbVars, rateVars, handlerVars, agentVars, translateVars, constructVars, reviewVars>>
notAgents == <<intentVars, formatVars, dbVars, rateVars, webVars, handlerVars, translateVars, constructVars, reviewVars>>
notHandler == <<intentVars, formatVars, dbVars, rateVars, webVars, agentVars, translateVars, constructVars, reviewVars>>

-----------------------------------------------------------------------------
(***************************************************************************)
(* Strings.                                                                *)
(***************************************************************************)

\* The elements of a sequence.
Range(s) == {s[i] : i \in 1..Len(s)}

\* str.lower() on one character (ASCII letters; every other character of
\* the model's alphabet has no upper-case form and is left alone).
LowerChar(c) ==
    CASE c = "A" -> "a" [] c = "B" -> "b" [] c = "C" -> "c" [] c = "D" -> "d"
      [] c = "E" -> "e" [] c = "F" -> "f" [] c = "G" -> "g" [] c = "H" -> "h"
      [] c = "I" -> "i" [] c = "J" -> "j" [] c = "K" -> "k" [] c = "L" -> "l"
      [] c = "M" -> "m" [] c = "N" -> "n" [] c = "O" -> "o" [] c = "P" -> "p"
      [] c = "Q" -> "q" [] c = "R" -> "r" [] c = "S" -> "s" [] c = "T" -> "t"
      [] c = "U" -> "u" [] c = "V" -> "v" [] c = "W" -> "w" [] c = "X" -> "x"
      [] c = "Y" -> "y" [] c = "Z" -> "z"
      [] OTHER -> c

\* str.lower()
RECURSIVE Lower(_)
Lower(s) ==
    IF Len(s) = 0 THEN ""
    ELSE LowerChar(SubSeq(s, 1, 1)) \o Lower(SubSeq(s, 2, Len(s)))

\* Python's `k in s` on strings: k occurs in s at some offset.
IsSubstring(k, s) ==
    \E i \in 0..(Len(s) - Len(k)) : SubSeq(s, i + 1, i + Len(k)) = k

\* str.startswith
StartsWith(s, p) == Len(s) >= Len(p) /\ SubSeq(s, 1, Len(p)) = p

-----------------------------------------------------------------------------
(***************************************************************************)
(* AhrieTeamOrchestratorV2._analyze_query_intent                           *)
(***************************************************************************)

\* The keys of intent_keywords in dict (insertion) order.
IntentOrder == <<"medical", "cultural", "review", "location", "female_specific">>

\* intent_keywords
IntentKeywords(intent) ==
    CASE intent = "medical" ->
            {"surgery", "procedure", "doctor", "clinic", "cost", "nose", "eye",
             "{uc218}{uc220}", "{uc758}{uc0ac}", "{ubcd1}{uc6d0}"}
      [] intent = "cultural" ->
            {"halal", "{u062d}{u0644}{u0627}{u0644}", "prayer",
             "{u0635}{u0644}{u0627}{u0629}", "mosque", "muslim", "islamic",
             "ramadan"}
      [] intent = "review" ->
            {"review", "experience", "youtube", "video", "{ud6c4}{uae30}",
             "{ub9ac}{ubdf0}", "{u062a}{u062c}{u0631}{u0628}{u0629}",
             "{u0645}{u0631}{u0627}{u062c}{u0639}{u0629}"}
      [] intent = "location" ->
            {"near", "gangnam", "seoul", "where", "location", "{uac15}{ub0a8}",
             "{uc11c}{uc6b8}", "{u0623}{u064a}{u0646}"}
      [] intent = "female_specific" ->
            {"female doctor", "{uc5ec}{uc758}{uc0ac}",
             "{u0637}{u0628}{u064a}{u0628}{u0629}", "woman", "lady", "sister"}

\* A plausible slip: the keywords are matched against the query as typed.
QueryLower_NotLowered(q) == q

\* query_lower = query.lower()
QueryLower(q) == Lower(q)

\* The detection loop: for each intent in dict order, append it when any of
\* its keywords occurs in query_lower.  `i` is the next index of IntentOrder.
RECURSIVE DetectFrom(_, _)
DetectFrom(query_lower, i) ==
    IF i > Len(IntentOrder) THEN <<>>
    ELSE (IF \E k \in IntentKeywords(IntentOrder[i]) : IsSubstring(k, query_lower)
          THEN <<IntentOrder[i]>> ELSE <<>>)
         \o DetectFrom(query_lower, i + 1)

DetectIntents(q) == DetectFrom(QueryLower(q), 1)

\* The agent mapping: three appends on the detected intents, then the
\* Coordinator when no intent at all was detected.
RequiredAgents(detected) ==
    (IF "medical" \in Range(detected) \/ "female_specific" \in Range(detected)
     THEN <<"Medical Expert">> ELSE <<>>)
    \o (IF "cultural" \in Range(detected) THEN <<"Cultural Advisor">> ELSE <<>>)
    \o (IF "review" \in Range(detected) THEN <<"Review Analyst">> ELSE <<>>)
    \o (IF detected = <<>> THEN <<"Coordinator">> ELSE <<>>)

\* The `analysis` dict (the method returns it serialised by json.dumps; the
\* model keeps the dict).  confidence is the pair numerator / denominator.
AnalyzeQueryIntent(q) ==
    LET detected == DetectIntents(q) IN
    [ query |-> q,
      detected_intents |-> detected,
      required_agents |-> RequiredAgents(detected),
      collaboration_needed |-> Len(detected) > 1,
      complexity |-> IF Len(detected) > 2 THEN "complex"
                     ELSE IF Len(detected) > 1 THEN "multi" ELSE "simple",
      confidence |-> <<Len(detected), Len(IntentOrder)>> ]

\* How many fragments a query of the model is made of, at most.
MaxFragments == 2

\* The pieces the model's queries are put together from: keywords in lower
\* and upper case, halves of keywords that only match once joined, text that
\* matches nothing.
Fragments ==
    {"Eye", "nose job", "NEAR", "where", "halal", "{u062d}{u0644}{u0627}{u0644}",
     "Review", "female ", "doctor", "{uc5ec}", "{uc758}{uc0ac}", "wo", "man",
     "hello ", "lady"}

IntentInit == query = "" /\ typed = 0 /\ analysis = <<>>

\* The caller types one more fragment of the query.
ExtendQuery ==
    /\ typed < MaxFragments
    /\ \E f \in Fragments : query' = query \o f
    /\ typed' = typed + 1
    /\ UNCHANGED <<analysis, notIntent>>

\* A call of the tool on the current query.
AnalyzeIntent ==
    /\ analysis' = <<AnalyzeQueryIntent(query)>>
    /\ UNCHANGED <<query, typed, notIntent>>

NextIntent == ExtendQuery \/ AnalyzeIntent

-----------------------------------------------------------------------------
(***************************************************************************)
(* CoordinatorAgent._format_response                                       *)
(*                                                                         *)
(* A Python dict is a function from its keys; a `result` is the record     *)
(* [type, items] of its Python type and, for a dict, its items.            *)
(***************************************************************************)

\* The reply when `result` is falsy or not a dict.
ConfusedReply ==
    "{uc5b4}{uba38}, {uc8c4}{uc1a1}{ud574}{uc694}! {u1f622} "
    \o "{uc81c}{uac00} {uc7a0}{uc2dc} {ud5f7}{uac08}{ub838}{ub098}"
    \o "{ubd10}{uc694}. {ub2e4}{uc2dc} {ud55c} {ubc88} {ub9d0}"
    \o "{uc500}{ud574}{uc8fc}{uc2dc}{uba74} {ub354} {uc798} {ub3c4}"
    \o "{uc640}{ub4dc}{ub9b4}{uac8c}{uc694}!"

\* The reply when result["data"] is missing or empty.
GreetingReply ==
    "{uc548}{ub155}{ud558}{uc138}{uc694}! K-{ubdf0}{ud2f0} "
    \o "{uc758}{ub8cc} {uad00}{uad11}{uc5d0} {uad00}{uc2ec}{uc744} "
    \o "{uac00}{uc838}{uc8fc}{uc154}{uc11c} {uc815}{ub9d0} {uac10}"
    \o "{uc0ac}{ud574}{uc694}! {u1f495}\n\n{uc5ec}{ub7ec}{ubd84}"
    \o "{uc758} {uc544}{ub984}{ub2e4}{uc6b4} {ubcc0}{ud654}{ub97c} "
    \o "{uc704}{ud55c} {uc5ec}{uc815}{uc744} {ub3c4}{uc640}{ub4dc}"
    \o "{ub9b4} {uc218} {uc788}{uc5b4}{uc11c} {uae30}{ubed0}{uc694}."
    \o " {uc5b4}{ub5a4} {uac83}{uc774}{ub4e0} {ud3b8}{ud558}{uac8c} "
    \o "{ubb3c}{uc5b4}{ubcf4}{uc138}{uc694}!\n\n{uc81c}{uac00} "
    \o "{ub3c4}{uc640}{ub4dc}{ub9b4} {uc218} {uc788}{ub294} {uac83}"
    \o "{ub4e4}{uc774}{uc5d0}{uc694}:\n{u2022} {u1f3e5} {uc758}"
    \o "{ub8cc} {uc2dc}{uc220} {uc815}{ubcf4} ({ucf54}{uc131}{ud615}"
    \o ", {uc548}{uba74}{uc724}{uacfd}, {uac00}{uc2b4}{uc131}{ud615}"
    \o " {ub4f1})\n{u2022} {u1f469}{u200d}{u2695}{ufe0f} {ubbff}"
    \o "{uc744} {uc218} {uc788}{ub294} {ud074}{ub9ac}{ub2c9}{uacfc} "
    \o "{uc758}{uc0ac} {ucd94}{ucc9c}\n{u2022} {u1f54c} {ud560}"
    \o "{ub784} {ub808}{uc2a4}{ud1a0}{ub791}{uacfc} {uae30}{ub3c4}"
    \o "{uc2e4} {uc815}{ubcf4}\n{u2022} {u2b50} {uc2e4}{uc81c} "
    \o "{ud658}{uc790}{ubd84}{ub4e4}{uc758} {ub9ac}{ubdf0}{uc640} "
    \o "{uacbd}{ud5d8}{ub2f4}\n{u2022} {u1f4b0} {uac00}{uaca9} "
    \o "{uc815}{ubcf4}{uc640} {uc5ec}{ud589} {ud301}\n\n{uc5b4}"
    \o "{ub5a4} {uac83}{ubd80}{ud130} {ub3c4}{uc640}{ub4dc}{ub9b4}"
    \o "{uae4c}{uc694}? {uc5ec}{ub7ec}{ubd84}{uc758} {uc774}{uc57c}"
    \o "{uae30}{ub97c} {ub4e4}{ub824}{uc8fc}{uc138}{uc694}! {u1f60a}"

\* The reply when data holds none of the three agent keys.
HowCanIHelpReply ==
    "{uc5ec}{ub7ec}{ubd84}{uc758} K-{ubdf0}{ud2f0} {uc5ec}{uc815}"
    \o "{uc744} {uc5b4}{ub5bb}{uac8c} {ub3c4}{uc640}{ub4dc}{ub9b4}"
    \o "{uae4c}{uc694}? {ubb34}{uc5c7}{uc774}{ub4e0} {ud3b8}{ud558}"
    \o "{uac8c} {ubb3c}{uc5b4}{ubcf4}{uc138}{uc694}! {u1f496}"

\* The apology CoordinatorAgent.process returns when anything raised.
CoordinatorApology ==
    "{uc557}, {uc8c4}{uc1a1}{ud574}{uc694}! {u1f614} {uc7a0}"
    \o "{uc2dc} {ubb38}{uc81c}{uac00} {uc0dd}{uacbc}{uc5b4}{uc694}. "
    \o "{uc870}{uae08}{ub9cc} {uae30}{ub2e4}{ub824}{uc8fc}{uc2dc}"
    \o "{uba74} {ub2e4}{uc2dc} {ub3c4}{uc640}{ub4dc}{ub9b4}{uac8c}"
    \o "{uc694}. {uc5ec}{ub7ec}{ubd84}{uc758} {uc18c}{uc911}{ud55c} "
    \o "{uc9c8}{ubb38}{uc744} {ub193}{uce58}{uace0} {uc2f6}{uc9c0} "
    \o "{uc54a}{uc544}{uc694}!"

\* The section headers.
MedicalHeader == "{u1f3e5} **Medical Information:**\n"
ReviewsHeader == "{u1f4f9} **Reviews & Experiences:**\n"
CulturalHeader == "{u1f54c} **Cultural Guidance:**\n"

\* The defaults of data.get("content", ...) in the three _format_*_data.
MedicalPlaceholder ==
    "{uc758}{ub8cc} {uc815}{ubcf4}{ub97c} {uc900}{ube44}{ud558}"
    \o "{uace0} {uc788}{uc5b4}{uc694}! {uace7} {uc790}{uc138}{ud55c}"
    \o " {ub0b4}{uc6a9}{uc744} {uc54c}{ub824}{ub4dc}{ub9b4}{uac8c}"
    \o "{uc694}. {u1f60a}"
ReviewsPlaceholder ==
    "{ub2e4}{ub978} {ubd84}{ub4e4}{uc758} {uacbd}{ud5d8}{ub2f4}"
    \o "{uc744} {ucc3e}{uc544}{ubcf4}{uace0} {uc788}{uc5b4}{uc694}! "
    \o "{uc2e4}{uc81c} {ud6c4}{uae30}{ub4e4}{uc744} {uace7} {ubcf4}"
    \o "{uc5ec}{ub4dc}{ub9b4}{uac8c}{uc694}. {u2b50}"
CulturalPlaceholder ==
    "{ubb38}{ud654}{uc801}{uc778} {uc815}{ubcf4}{ub97c} {uc900}"
    \o "{ube44}{ud558}{uace0} {uc788}{uc5b4}{uc694}! {ud3b8}{uc548}"
    \o "{ud55c} {ud55c}{uad6d} {uc5ec}{ud589}{uc774} {ub418}{ub3c4}"
    \o "{ub85d} {ub3c4}{uc640}{ub4dc}{ub9b4}{uac8c}{uc694}. {u1f54c}"

\* An empty dict.
EmptyDict == <<>>

\* dict.get(key, default)
Get(d, key, default) == IF key \in DOMAIN d THEN d[key] ELSE default

\* _format_medical_data, _format_review_data, _format_cultural_data:
\* str(data.get("content", <placeholder>)); contents are strings already.
FormatMedicalData(d) == Get(d, "content", MedicalPlaceholder)
FormatReviewData(d) == Get(d, "content", ReviewsPlaceholder)
FormatCulturalData(d) == Get(d, "content", CulturalPlaceholder)

\* sep.join(parts)
RECURSIVE Join(_, _)
Join(sep, parts) ==
    IF parts = <<>> THEN ""
    ELSE IF Len(parts) = 1 THEN parts[1]
    ELSE parts[1] \o sep \o Join(sep, Tail(parts))

\* A slip in the order the sections are appended: cultural before reviews.
FormatSections_CulturalFirst(data) ==
    (IF "medical" \in DOMAIN data
     THEN <<MedicalHeader \o FormatMedicalData(data["medical"])>> ELSE <<>>)
    \o (IF "cultural" \in DOMAIN data
        THEN <<CulturalHeader \o FormatCulturalData(data["cultural"])>> ELSE <<>>)
    \o (IF "reviews" \in DOMAIN data
        THEN <<ReviewsHeader \o FormatReviewData(data["reviews"])>> ELSE <<>>)

\* The `responses` list after the three `if ... in data` appends.
FormatSections(data) ==
    (IF "medical" \in DOMAIN data
     THEN <<MedicalHeader \o FormatMedicalData(data["medical"])>> ELSE <<>>)
    \o (IF "reviews" \in DOMAIN data
        THEN <<ReviewsHeader \o FormatReviewData(data["reviews"])>> ELSE <<>>)
    \o (IF "cultural" \in DOMAIN data
        THEN <<CulturalHeader \o FormatCulturalData(data["cultural"])>> ELSE <<>>)

\* _format_response(result)
FormatResponse(result) ==
    IF result.type # "dict" \/ DOMAIN result.items = {}
    THEN ConfusedReply
    ELSE LET data == Get(result.items, "data", EmptyDict) IN
         IF DOMAIN data = {}
         THEN GreetingReply
         ELSE LET responses == FormatSections(data) IN
              IF responses # <<>> THEN Join("\n\n", responses)
              ELSE HowCanIHelpReply

\* The keys a data dict of the model may hold: the three the formatter knows
\* and the one route_query uses for a general answer.
DataKeys == {"medical", "reviews", "cultural", "general"}

\* The texts an agent's "content" may be.
ContentTexts == {"", "Rhinoplasty takes 1-2 hours.", "Most reviews are positive."}

\* What one agent contributed: a dict with a content, or one without (as
\* route_query builds them: only a status).
AgentDicts ==
    {[status |-> "would_route"]} \cup {[content |-> t] : t \in ContentTexts}

\* Every data dict over DataKeys.
DataDicts == UNION {[ks -> AgentDicts] : ks \in SUBSET DataKeys}

\* _aggregate_responses and route_query: the dict around `data`.
ResultOf(data) ==
    [type |-> "dict", items |-> ("status" :> "success" @@ "data" :> data)]

\* The arguments the model hands to _format_response.
FormatInputs ==
    {[type |-> "NoneType", items |-> EmptyDict],
     [type |-> "str", items |-> EmptyDict],
     [type |-> "dict", items |-> EmptyDict],
     [type |-> "dict", items |-> ("status" :> "success")]}
    \cup {ResultOf(d) : d \in DataDicts}

FormatIdle == fmt_result = [type |-> "NoneType", items |-> EmptyDict] /\ fmt_output = <<>>

FormatInit == fmt_result \in FormatInputs /\ fmt_output = <<>>

\* A call _format_response(fmt_result).
FormatCall ==
    /\ fmt_output = <<>>
    /\ fmt_output' = <<FormatResponse(fmt_result)>>
    /\ UNCHANGED <<fmt_result, notFormat>>

\* The caller comes with another result.
FormatNewResult ==
    /\ fmt_output # <<>>
    /\ fmt_result' \in FormatInputs
    /\ fmt_output' = <<>>
    /\ UNCHANGED notFormat

NextFormat == FormatCall \/ FormatNewResult

-----------------------------------------------------------------------------
(***************************************************************************)
(* database/connection.py: the module-level pool and init_db, close_db,    *)
(* get_db_pool.  Calls are made one after another (each action is a whole   *)
(* call); what the database does (create_pool, the test query, close) is   *)
(* the environment's choice.                                               *)
(***************************************************************************)

\* How many calls a run of the model makes, at most.
MaxDbCalls == 4

\* _db_pool is None
PoolIsNone == db_pool = 0

DbLogged(op, outcome, pool) ==
    db_log' = Append(db_log, [op |-> op, outcome |-> outcome, pool |-> pool])

DbInit == db_pool = 0 /\ pools_created = 0 /\ pools_open = {} /\ db_log = <<>>

\* A slip: the early return of init_db is missing, so a second call creates
\* a second pool over the first.
InitDbGuard_Missing == TRUE

\* init_db's `if _db_pool is not None: ... return` does not apply.
InitDbGuard == PoolIsNone

\* init_db() while a pool is held: a warning, and it returns.
InitDbAlready ==
    /\ Len(db_log) < MaxDbCalls
    /\ ~InitDbGuard
    /\ DbLogged("init_db", "returned", db_pool)
    /\ UNCHANGED <<db_pool, pools_created, pools_open, notDb>>

\* init_db(): asyncpg.create_pool raises; nothing was assigned, the
\* exception is logged and raised again.
InitDbCreateFails ==
    /\ Len(db_log) < MaxDbCalls
    /\ InitDbGuard
    /\ DbLogged("init_db", "raised", db_pool)
    /\ UNCHANGED <<db_pool, pools_created, pools_open, notDb>>

\* init_db(): create_pool succeeds and _db_pool is assigned; then the test
\* query (acquire, fetchval) raises, and the exception is raised again with
\* _db_pool left as assigned.
InitDbTestFails ==
    /\ Len(db_log) < MaxDbCalls
    /\ InitDbGuard
    /\ pools_created' = pools_created + 1
    /\ db_pool' = pools_created'
    /\ pools_open' = pools_open \cup {pools_created'}
    /\ DbLogged("init_db", "raised", db_pool')
    /\ UNCHANGED notDb

\* init_db(): create_pool and the test query succeed.
InitDbSucceeds ==
    /\ Len(db_log) < MaxDbCalls
    /\ InitDbGuard
    /\ pools_created' = pools_created + 1
    /\ db_pool' = pools_created'
    /\ pools_open' = pools_open \cup {pools_created'}
    /\ DbLogged("init_db", "returned", db_pool')
    /\ UNCHANGED notDb

\* close_db() with no pool: a warning, and it returns.
CloseDbNotInitialised ==
    /\ Len(db_log) < MaxDbCalls
    /\ PoolIsNone
    /\ DbLogged("close_db", "returned", db_pool)
    /\ UNCHANGED <<db_pool, pools_created, pools_open, notDb>>

\* close_db(): the pool closes and _db_pool becomes None.
CloseDbSucceeds ==
    /\ Len(db_log) < MaxDbCalls
    /\ ~PoolIsNone
    /\ pools_open' = pools_open \ {db_pool}
    /\ db_pool' = 0
    /\ DbLogged("close_db", "returned", db_pool)
    /\ UNCHANGED <<pools_created, notDb>>

\* close_db(): _db_pool.close() raises; _db_pool is not reset and the
\* exception is raised again.
CloseDbFails ==
    /\ Len(db_log) < MaxDbCalls
    /\ ~PoolIsNone
    /\ DbLogged("close_db", "raised", db_pool)
    /\ UNCHANGED <<db_pool, pools_created, pools_open, notDb>>

\* get_db_pool(): RuntimeError when _db_pool is None, else the pool.
GetDbPool ==
    /\ Len(db_log) < MaxDbCalls
    /\ DbLogged("get_db_pool", IF PoolIsNone THEN "RuntimeError" ELSE "returned", db_pool)
    /\ UNCHANGED <<db_pool, pools_created, pools_open, notDb>>

NextDb ==
    \/ InitDbAlready \/ InitDbCreateFails \/ InitDbTestFails \/ InitDbSucceeds
    \/ CloseDbNotInitialised \/ CloseDbSucceeds \/ CloseDbFails
    \/ GetDbPool

-----------------------------------------------------------------------------
(***************************************************************************)
(* api/middleware.py: RateLimitMiddleware.                                 *)
(*                                                                         *)
(* dispatch runs without an await from reading the clock to updating       *)
(* request_counts, so that part of a request is one step; the await of     *)
(* call_next and the headers added after it are the step RateRespond.      *)
(* The clock counts whole seconds and never runs backwards.                *)
(***************************************************************************)

\* The largest limit and window a middleware of the model is built with,
\* the last instant of the clock, and how many requests a run dispatches.
MaxLimit == 2
MaxWindow == 2
MaxTime == 2
MaxRateRequests == 3

\* request.client.host
ClientIPs == {"10.0.0.1", "10.0.0.2"}

\* The timestamps of a list that are still inside the window at time t:
\* [timestamp for timestamp in ... if current_time - timestamp < window].
InWindow(stamps, t) == SelectSeq(stamps, LAMBDA ts : t - ts < window_seconds)

\* _clean_old_entries: every list is filtered, and an IP whose list became
\* empty is deleted.
CleanOldEntries(counts, t) ==
    LET kept == {ip \in DOMAIN counts : InWindow(counts[ip], t) # <<>>}
    IN  [ip \in kept |-> InWindow(counts[ip], t)]

\* A slip in the comparison: one request too many passes.
LimitReached_OffByOne(n) == n > max_requests

\* len(requests_in_window) >= self.max_requests
LimitReached(n) == n >= max_requests

\* A slip: the rejected request is recorded like an admitted one.
CountsAfterReject_Stamped(counts, ip, t) ==
    [counts EXCEPT ![ip] = Append(InWindow(counts[ip], t), t)]

\* request_counts after a 429: the early return leaves it as cleaned.
CountsAfterReject(counts, ip, t) == counts

\* request_counts after the request is let through.
CountsAfterAdmit(counts, ip, t) ==
    IF ip \in DOMAIN counts
    THEN [counts EXCEPT ![ip] = Append(InWindow(counts[ip], t), t)]
    ELSE [i \in DOMAIN counts \cup {ip} |-> IF i = ip THEN <<t>> ELSE counts[i]]

\* Whether dispatch answers 429, on the cleaned request_counts.
Rejects(counts, ip, t) ==
    ip \in DOMAIN counts /\ LimitReached(Len(InWindow(counts[ip], t)))

RateInit ==
    /\ max_requests \in 1..MaxLimit
    /\ window_seconds \in 1..MaxWindow
    /\ request_counts = <<>>
    /\ now = 0
    /\ rate_log = <<>>

RateIdle ==
    /\ max_requests = 1
    /\ window_seconds = 1
    /\ request_counts = <<>>
    /\ now = 0
    /\ rate_log = <<>>

\* Time passes.
Tick ==
    /\ now < MaxTime
    /\ now' = now + 1
    /\ UNCHANGED <<max_requests, window_seconds, request_counts, rate_log>>
    /\ UNCHANGED notRate

\* dispatch of a request under /api/v1/health: passed on, nothing recorded.
DispatchHealth ==
    /\ Len(rate_log) < MaxRateRequests
    /\ \E ip \in ClientIPs :
           rate_log' = Append(rate_log,
               [ip |-> ip, time |-> now, health |-> TRUE, passed_on |-> TRUE,
                status |-> "pending"])
    /\ UNCHANGED <<max_requests, window_seconds, request_counts, now>>
    /\ UNCHANGED notRate

\* dispatch of any other request, up to the 429 or to the call of call_next.
Dispatch ==
    /\ Len(rate_log) < MaxRateRequests
    /\ \E ip \in ClientIPs :
          LET cleaned == CleanOldEntries(request_counts, now) IN
          IF Rejects(cleaned, ip, now)
          THEN /\ request_counts' = CountsAfterReject(cleaned, ip, now)
               /\ rate_log' = Append(rate_log,
                      [ip |-> ip, time |-> now, health |-> FALSE,
                       passed_on |-> FALSE, status |-> "429"])
          ELSE /\ request_counts' = CountsAfterAdmit(cleaned, ip, now)
               /\ rate_log' = Append(rate_log,
                      [ip |-> ip, time |-> now, health |-> FALSE,
                       passed_on |-> TRUE, status |-> "pending"])
    /\ UNCHANGED <<max_requests, window_seconds, now>>
    /\ UNCHANGED notRate

\* call_next returns for a request passed on.  A health request is answered
\* as is; for the others dispatch reads self.request_counts[client_ip] for
\* the X-RateLimit-Remaining header, which raises KeyError when a later
\* request's clean-up has deleted the IP meanwhile.
RateRespond ==
    /\ \E i \in 1..Len(rate_log) :
          /\ rate_log[i].status = "pending"
          /\ rate_log' = [rate_log EXCEPT ![i].status =
                 IF rate_log[i].health \/ rate_log[i].ip \in DOMAIN request_counts
                 THEN "200" ELSE "KeyError"]
    /\ UNCHANGED <<max_requests, window_seconds, request_counts, now>>
    /\ UNCHANGED notRate

NextRate == Tick \/ DispatchHealth \/ Dispatch \/ RateRespond

-----------------------------------------------------------------------------
(***************************************************************************)
(* api/main.py (lifespan) and api/routes/webhook.py (telegram_webhook,     *)
(* extract_message_data, verify_telegram_webhook, set_webhook).            *)
(*                                                                         *)
(* telegram_webhook touches no shared state but background_tasks, so a     *)
(* request is one step.  A request is [raw, json, update, signature]: the  *)
(* body's bytes, whether they parse, the parsed update, and the value of   *)
(* the X-Telegram-Bot-Api-Secret-Token header ("" when absent).            *)
(***************************************************************************)

\* How many requests a run of the model answers, at most.
MaxUpdates == 2

\* HMAC-SHA256 of the body under sha256(TELEGRAM_BOT_TOKEN), as hex: a
\* digest is determined by the body and differs from body to body.
HmacHexDigest(raw) == "hmac-sha256(" \o raw \o ")"

\* verify_telegram_webhook
VerifyTelegramWebhook(raw, signature) == HmacHexDigest(raw) = signature

\* The users and chats of the model's updates.
FromUser == [id |-> 7, first_name |-> "Noor", language_code |-> "ar"]
FromUserPlain == [id |-> 8]
Chat == [id |-> 100]
OtherChat == [id |-> 200]

\* The bodies the platform (or anyone else) posts.
Bodies ==
    { [raw |-> "text message", json |-> "dict",
       update |-> [update_id |-> 1,
                   message |-> [message_id |-> 11, chat |-> Chat, from |-> FromUser,
                                text |-> "hello", date |-> 1700000000]]],
      [raw |-> "command", json |-> "dict",
       update |-> [update_id |-> 7,
                   message |-> [message_id |-> 17, chat |-> Chat, from |-> FromUser,
                                text |-> "/help", date |-> 1700000007]]],
      [raw |-> "photo message", json |-> "dict",
       update |-> [update_id |-> 2,
                   message |-> [message_id |-> 12, chat |-> OtherChat, from |-> FromUserPlain,
                                date |-> 1700000001]]],
      [raw |-> "message without sender", json |-> "dict",
       update |-> [update_id |-> 3,
                   message |-> [message_id |-> 13, chat |-> Chat, text |-> "post"]]],
      [raw |-> "button press", json |-> "dict",
       update |-> [update_id |-> 4,
                   callback_query |-> [id |-> "cb1", from |-> FromUser, data |-> "lang_ar",
                                       message |-> [message_id |-> 14, chat |-> Chat]]]],
      [raw |-> "button press on an inline message", json |-> "dict",
       update |-> [update_id |-> 5,
                   callback_query |-> [id |-> "cb2", from |-> FromUser, data |-> "main_menu"]]],
      [raw |-> "edited message", json |-> "dict",
       update |-> [update_id |-> 6, edited_message |-> [message_id |-> 11]]],
      [raw |-> "[1, 2]", json |-> "list", update |-> <<>>],
      [raw |-> "not json", json |-> "invalid", update |-> <<>>] }

\* The values of settings.TELEGRAM_WEBHOOK_SECRET of the model.
WebhookSecrets == {"", "s3cret-token"}

\* The header values sent along with a body.
Signatures(body) ==
    {"", HmacHexDigest(body.raw), HmacHexDigest("another body")}
    \cup Range(registered_secret)

Requests ==
    UNION {{[raw |-> b.raw, json |-> b.json, update |-> b.update, signature |-> sig] :
        sig \in Signatures(b)} : b \in Bodies}

\* extract_message_data raises KeyError: a subscript on a missing key.
ExtractRaises(update) ==
    IF "message" \in DOMAIN update
    THEN LET message == update["message"] IN
         \/ "chat" \notin DOMAIN message
         \/ "from" \notin DOMAIN message
    ELSE IF "callback_query" \in DOMAIN update
    THEN LET callback == update["callback_query"] IN
         \/ "message" \notin DOMAIN callback
         \/ "from" \notin DOMAIN callback
    ELSE FALSE

\* extract_message_data: <<the message data>>, or <<>> for None.
ExtractMessageData(update) ==
    IF "message" \in DOMAIN update
    THEN LET message == update["message"] IN
         << [update_id |-> Get(update, "update_id", "None"),
             message_id |-> Get(message, "message_id", "None"),
             chat_id |-> message["chat"]["id"],
             user_id |-> message["from"]["id"],
             username |-> Get(message["from"], "username", ""),
             first_name |-> Get(message["from"], "first_name", ""),
             last_name |-> Get(message["from"], "last_name", ""),
             text |-> Get(message, "text", ""),
             date |-> Get(message, "date", "None"),
             language_code |-> Get(message["from"], "language_code", "en"),
             message_type |-> IF "text" \in DOMAIN message THEN "text" ELSE "other"] >>
    ELSE IF "callback_query" \in DOMAIN update
    THEN LET callback == update["callback_query"] IN
         << [update_id |-> Get(update, "update_id", "None"),
             callback_query_id |-> Get(callback, "id", "None"),
             chat_id |-> callback["message"]["chat"]["id"],
             user_id |-> callback["from"]["id"],
             username |-> Get(callback["from"], "username", ""),
             first_name |-> Get(callback["from"], "first_name", ""),
             last_name |-> Get(callback["from"], "last_name", ""),
             callback_data |-> Get(callback, "data", ""),
             message_id |-> Get(callback["message"], "message_id", "None"),
             language_code |-> Get(callback["from"], "language_code", "en"),
             message_type |-> "callback"] >>
    ELSE <<>>

\* No signature is ever checked.
SignatureChecked_Never == FALSE

\* The signature is checked: `if not settings.DEBUG`.
SignatureChecked == ~settings.DEBUG

\* The body of telegram_webhook's try block: the exception it raises (or
\* "none"), the response it returns when none, the task it adds.
WebhookTry(req) ==
    LET raises(exc) == [raised |-> exc, description |-> "", task |-> <<>>]
        returns(description, task) ==
            [raised |-> "none", description |-> description, task |-> task]
    IN
    IF SignatureChecked /\ ~VerifyTelegramWebhook(req.raw, req.signature)
    THEN raises("HTTPException(401, Invalid signature)")
    ELSE IF req.json = "invalid" THEN raises("JSONDecodeError")
    ELSE IF req.json # "dict" THEN raises("AttributeError: get")
    ELSE IF ExtractRaises(req.update) THEN raises("KeyError")
    ELSE LET message_data == ExtractMessageData(req.update) IN
         IF message_data = <<>>
         THEN returns("No message to process", <<>>)
         ELSE IF "agents" \notin DOMAIN app_state
         THEN raises("AttributeError: agents")
         ELSE returns("", << [func |-> "process_telegram_message",
                              message_data |-> message_data[1],
                              agents |-> app_state["agents"]] >>)

\* An except clause that lets HTTPException pass.
Caught_NotHTTPException(exc) == exc # "HTTPException(401, Invalid signature)"

\* `except Exception as e` catches: HTTPException is an Exception too.
Caught(exc) == TRUE

\* What the client gets for an exception that leaves telegram_webhook:
\* FastAPI's answer to an HTTPException, ErrorHandlerMiddleware's otherwise.
Uncaught(exc) ==
    IF exc = "HTTPException(401, Invalid signature)"
    THEN [status |-> 401, ok |-> FALSE, description |-> "Invalid signature"]
    ELSE [status |-> 500, ok |-> FALSE, description |-> "Internal server error"]

\* telegram_webhook: the response.
WebhookResponse(req) ==
    LET try == WebhookTry(req) IN
    IF try.raised = "none"
    THEN [status |-> 200, ok |-> TRUE, description |-> try.description]
    ELSE IF Caught(try.raised)
    THEN [status |-> 200, ok |-> TRUE, description |-> "Error processed"]
    ELSE Uncaught(try.raised)

WebInit ==
    /\ settings \in [DEBUG : BOOLEAN, TELEGRAM_WEBHOOK_SECRET : WebhookSecrets]
    /\ app_phase = "starting"
    /\ app_state = <<>>
    /\ registered_secret = <<>>
    /\ background_tasks = <<>>
    /\ web_log = <<>>

WebIdle ==
    /\ settings = [DEBUG |-> FALSE, TELEGRAM_WEBHOOK_SECRET |-> ""]
    /\ app_phase = "starting"
    /\ app_state = <<>>
    /\ registered_secret = <<>>
    /\ background_tasks = <<>>
    /\ web_log = <<>>

\* lifespan up to `yield`: init_db and the orchestrator's construction
\* succeed, and the orchestrator is stored under two names.
LifespanStartup ==
    /\ app_phase = "starting"
    /\ app_phase' = "serving"
    /\ app_state' = [name \in {"team_orchestrator", "orchestrator"} |->
                        "AhrieTeamOrchestratorV2"]
    /\ UNCHANGED <<settings, registered_secret, background_tasks, web_log, notWeb>>

\* lifespan: init_db or AhrieTeamOrchestratorV2() raises; the application
\* does not start.
LifespanStartupFails ==
    /\ app_phase = "starting"
    /\ app_phase' = "failed"
    /\ UNCHANGED <<settings, app_state, registered_secret, background_tasks, web_log, notWeb>>

\* set_webhook: the webhook is registered with the configured secret token.
SetWebhook ==
    /\ app_phase = "serving"
    /\ registered_secret = <<>>
    /\ registered_secret' = <<settings.TELEGRAM_WEBHOOK_SECRET>>
    /\ UNCHANGED <<settings, app_phase, app_state, background_tasks, web_log, notWeb>>

\* telegram_webhook answers one request.
TelegramWebhook ==
    /\ app_phase = "serving"
    /\ Len(web_log) < MaxUpdates
    /\ \E req \in Requests :
          LET try == WebhookTry(req) IN
          /\ background_tasks' = background_tasks \o try.task
          /\ web_log' = Append(web_log,
                 [request |-> req, raised |-> try.raised,
                  enqueued |-> Len(try.task), response |-> WebhookResponse(req),
                  pending_before |-> Len(background_tasks)])
    /\ UNCHANGED <<settings, app_phase, app_state, registered_secret, notWeb>>

NextWeb == LifespanStartup \/ LifespanStartupFails \/ SetWebhook \/ TelegramWebhook

-----------------------------------------------------------------------------
(***************************************************************************)
(* bot/handlers.py: TelegramMessageHandler, as called by                   *)
(* process_telegram_message (api/routes/webhook.py).                       *)
(*                                                                         *)
(* Each call of process_telegram_message builds a handler of its own and   *)
(* runs as a task of the event loop: calls interleave at their awaits, so  *)
(* a call is one record of runs with its position pc and the calls it has  *)
(* made on the bot, the store and the orchestrator (events).               *)
(***************************************************************************)

\* How many messages a run of the model handles, at most.
MaxMessages == 2

\* The message data handed over: what extract_message_data returns.
MessageDatas ==
    UNION {Range(ExtractMessageData(b.update)) :
              b \in {c \in Bodies : c.json = "dict" /\ ~ExtractRaises(c.update)}}

\* The agents dicts a handler is built with.
AgentPools == {{"orchestrator", "medical_expert"}, {"medical_expert"}}

\* What the orchestrator's process returns.
Responses ==
    { [content |-> "Rhinoplasty takes 1-2 hours.",
       metadata |-> [response_type |-> "medical_consultation"]],
      [content |-> "I apologize, but I encountered an error processing your request. Please try again.",
       metadata |-> [error |-> "timeout"]],
      [metadata |-> [agent |-> "orchestrator"]] }

\* _format_agent_response: str(response.get("content", ""))
FormatAgentResponse(response) == Get(response, "content", "")

\* handle_message and _handle_text_message up to the first await.
HandleMessage(message_data) ==
    IF message_data["message_type"] = "callback" THEN "callback"
    ELSE IF StartsWith(message_data["text"], "/") THEN "command"
    ELSE "typing"

\* _handle_text_message: the statement a completed statement is followed by.
StepAfter_StoreBeforeSend(pc) ==
    CASE pc = "typing" -> "store_user"
      [] pc = "store_user" -> "process"
      [] pc = "process" -> "store_assistant"
      [] pc = "store_assistant" -> "send"
      [] pc = "send" -> "done"

StepAfter(pc) ==
    CASE pc = "typing" -> "store_user"
      [] pc = "store_user" -> "process"
      [] pc = "process" -> "send"
      [] pc = "send" -> "store_assistant"
      [] pc = "store_assistant" -> "done"

Event(kind, chat_id, role, text) ==
    [kind |-> kind, chat_id |-> chat_id, role |-> role, text |-> text]

\* Run r moves to pc, having made the calls of events.
Moved(r, pc, events) ==
    runs' = [runs EXCEPT ![r].pc = pc, ![r].events = @ \o events]

HandlerInit == runs = <<>>

\* process_telegram_message: TelegramMessageHandler(agents), handle_message.
ProcessTelegramMessage ==
    /\ Len(runs) < MaxMessages
    /\ \E message_data \in MessageDatas, agents \in AgentPools :
          runs' = Append(runs, [message_data |-> message_data, agents |-> agents,
                                pc |-> HandleMessage(message_data), response |-> <<>>,
                                events |-> <<>>])
    /\ UNCHANGED notHandler

\* line 72: bot.send_chat_action(chat_id, "typing")
SendChatAction(r) ==
    /\ runs[r].pc = "typing"
    /\ Moved(r, StepAfter("typing"),
             <<Event("typing", runs[r].message_data["chat_id"], "", "")>>)
    /\ UNCHANGED notHandler

\* line 72 raises (TelegramError, network).
SendChatActionFails(r) ==
    /\ runs[r].pc = "typing"
    /\ Moved(r, "error", <<>>)
    /\ UNCHANGED notHandler

\* lines 75-81: the user, the conversation, _store_message(..., "user", ...)
StoreUserMessage(r) ==
    /\ runs[r].pc = "store_user"
    /\ Moved(r, StepAfter("store_user"),
             <<Event("store", 0, "user", runs[r].message_data["text"])>>)
    /\ UNCHANGED notHandler

\* line 85: self.agents["orchestrator"].process(text) is called.
CallOrchestrator(r) ==
    /\ runs[r].pc = "process"
    /\ "orchestrator" \in runs[r].agents
    /\ Moved(r, "processing",
             <<Event("process_call", 0, "", runs[r].message_data["text"])>>)
    /\ UNCHANGED notHandler

\* line 85: self.agents["orchestrator"] raises KeyError.
OrchestratorMissing(r) ==
    /\ runs[r].pc = "process"
    /\ "orchestrator" \notin runs[r].agents
    /\ Moved(r, "error", <<>>)
    /\ UNCHANGED notHandler

\* line 85: process returns its response.
OrchestratorReturns(r) ==
    /\ runs[r].pc = "processing"
    /\ \E response \in Responses :
          runs' = [runs EXCEPT ![r].pc = StepAfter("process"),
                               ![r].response = <<response>>,
                               ![r].events = Append(@, Event("process_return", 0, "", ""))]
    /\ UNCHANGED notHandler

\* line 85: process raises.
OrchestratorRaises(r) ==
    /\ runs[r].pc = "processing"
    /\ Moved(r, "error", <<>>)
    /\ UNCHANGED notHandler

\* lines 88-98: the response is formatted and sent to the chat.
SendReply(r) ==
    /\ runs[r].pc = "send"
    /\ Moved(r, StepAfter("send"),
             <<Event("send_reply", runs[r].message_data["chat_id"], "",
                     FormatAgentResponse(runs[r].response[1]))>>)
    /\ UNCHANGED notHandler

\* line 93 raises (TelegramError: empty text, unparsable markdown, network).
SendReplyFails(r) ==
    /\ runs[r].pc = "send"
    /\ Moved(r, "error", <<>>)
    /\ UNCHANGED notHandler

\* lines 101-106: _store_message(..., "assistant", ...)
StoreAssistantMessage(r) ==
    /\ runs[r].pc = "store_assistant"
    /\ Moved(r, StepAfter("store_assistant"),
             <<Event("store", 0, "assistant", FormatAgentResponse(runs[r].response[1]))>>)
    /\ UNCHANGED notHandler

\* _handle_command: the command's answer is sent, or the sending raises.
HandleCommand(r) ==
    /\ runs[r].pc = "command"
    /\ \/ Moved(r, "done", <<Event("send_command_reply", runs[r].message_data["chat_id"], "", "")>>)
       \/ Moved(r, "error", <<>>)
    /\ UNCHANGED notHandler

\* _handle_callback_query: the callback is answered; a TelegramError is
\* logged there, any other exception reaches handle_message.
HandleCallbackQuery(r) ==
    /\ runs[r].pc = "callback"
    /\ \/ Moved(r, "done", <<Event("answer_callback_query", runs[r].message_data["chat_id"], "", "")>>)
       \/ Moved(r, "done", <<>>)
       \/ Moved(r, "error", <<>>)
    /\ UNCHANGED notHandler

\* handle_message's except: _send_error_message
SendErrorMessage(r) ==
    /\ runs[r].pc = "error"
    /\ Moved(r, "done", <<Event("send_error", runs[r].message_data["chat_id"], "", "")>>)
    /\ UNCHANGED notHandler

\* _send_error_message raises; process_telegram_message logs the exception.
SendErrorMessageFails(r) ==
    /\ runs[r].pc = "error"
    /\ Moved(r, "failed", <<>>)
    /\ UNCHANGED notHandler

NextHandler ==
    \/ ProcessTelegramMessage
    \/ \E r \in DOMAIN runs :
          \/ SendChatAction(r)
          \/ SendChatActionFails(r)
          \/ StoreUserMessage(r)
          \/ CallOrchestrator(r)
          \/ OrchestratorMissing(r)
          \/ OrchestratorReturns(r)
          \/ OrchestratorRaises(r)
          \/ SendReply(r)
          \/ SendReplyFails(r)
          \/ StoreAssistantMessage(r)
          \/ HandleCommand(r)
          \/ HandleCallbackQuery(r)
          \/ SendErrorMessage(r)
          \/ SendErrorMessageFails(r)

-----------------------------------------------------------------------------
(***************************************************************************)
(* The three process methods: CoordinatorAgent.process (coordinator.py),   *)
(* OrchestratorAgent.process (orchestrator.py) and                         *)
(* AhrieTeamOrchestratorV2.process (team_orchestrator_v2.py).              *)
(*                                                                         *)
(* Each awaits one remote run (Agent.arun, Team.arun); calls interleave    *)
(* there.  A call is a record of calls: who is called with what, where it  *)
(* stands, and how it ended: <<[kind |-> "return", value |-> the dict]>>   *)
(* or <<[kind |-> "raise", exc |-> the exception]>>.  Timestamps are the   *)
(* one value Timestamp.                                                    *)
(***************************************************************************)

\* How many calls of process a run of the model makes, at most.
MaxCalls == 2

Timestamp == "datetime.now().isoformat()"

\* The messages processed.
Messages == {"What is the price?", "Any doctor review?"}

\* The language_code arguments of AhrieTeamOrchestratorV2.process.
LanguageCodes == {"en", "ar", "ko"}

\* What the remote run gives back: a RunResponse with a content, or an
\* object without that attribute (then str(response) is taken).
RunResponses ==
    { [content |-> "A consultation costs about 50 USD."],
      [repr |-> "<RunResponse>"] }

\* What the remote run, or anything else on the way, raises.
Exceptions ==
    { [type |-> "TimeoutError", arg |-> "Request timed out."],
      [type |-> "KeyError", arg |-> "choices"] }

\* str(e): the argument; a KeyError shows the repr of its key.
Str(exc) == IF exc.type = "KeyError" THEN "'" \o exc.arg \o "'" ELSE exc.arg

\* response.content if hasattr(response, 'content') else str(response)
ResponseContent(response) ==
    IF "content" \in DOMAIN response THEN response.content ELSE response.repr

\* ---- CoordinatorAgent ----

\* analyze_intent: the keys of intents in dict order, and their keywords.
CoordinatorIntentOrder ==
    <<"medical_consultation", "review_inquiry", "cultural_guidance", "general_inquiry">>

CoordinatorIntentKeywords(intent) ==
    CASE intent = "medical_consultation" ->
            {"procedures", "surgery", "treatment", "clinic", "doctor"}
      [] intent = "review_inquiry" ->
            {"review", "experience", "youtube", "video", "testimonial"}
      [] intent = "cultural_guidance" ->
            {"halal", "prayer", "islamic", "culture", "arab", "saudi", "uae"}
      [] intent = "general_inquiry" ->
            {"price", "cost", "duration", "location", "booking"}

\* analyze_intent(message)["intents"]
AnalyzeIntentIntents(message) ==
    LET message_lower == Lower(message)
        detected_intents ==
            SelectSeq(CoordinatorIntentOrder,
                      LAMBDA intent : \E keyword \in CoordinatorIntentKeywords(intent) :
                                          IsSubstring(keyword, message_lower))
    IN IF detected_intents # <<>> THEN detected_intents ELSE <<"general_inquiry">>

\* route_query: the key under which an intent's answer is put.
ResponseKey(intent) ==
    CASE intent = "medical_consultation" -> "medical"
      [] intent = "review_inquiry" -> "reviews"
      [] intent = "cultural_guidance" -> "cultural"

\* route_query without the general agent: the specialists' placeholders,
\* aggregated.
RouteToSpecialists(intents) ==
    LET keys == {ResponseKey(intent) : intent \in Range(intents) \ {"general_inquiry"}}
        status(key) ==
            CASE key = "medical" -> "would_route_to_medical_expert"
              [] key = "reviews" -> "would_route_to_review_analyst"
              [] key = "cultural" -> "would_route_to_cultural_advisor"
        responses == [key \in keys |-> [status |-> status(key)]]
    IN [type |-> "dict",
        items |-> ("status" :> "success" @@ "data" :> responses @@
                   "response_type" :> (IF Cardinality(keys) > 1 THEN "multi_agent"
                                       ELSE "single_agent"))]

\* route_query with the general agent's answer.
RouteToGeneral(response) ==
    [type |-> "dict",
     items |-> ("status" :> "success" @@
                "data" :> [general |-> [content |-> ResponseContent(response)]] @@
                "response_type" :> "general_response")]

\* CoordinatorAgent.process: what it returns for a routed result.
CoordinatorReturn(result) ==
    [content |-> FormatResponse(result),
     metadata |-> [agent |-> "Coordinator", timestamp |-> Timestamp]]

\* ---- OrchestratorAgent ----

OrchestratorApology ==
    "I apologize, but I encountered an error processing your request. Please try again."

OrchestratorReturn(response_content) ==
    [content |-> response_content,
     metadata |-> [agent |-> "Orchestrator", timestamp |-> Timestamp,
                   tools_used |-> <<>>, response_type |-> "orchestrated"]]

\* ---- AhrieTeamOrchestratorV2 ----

TeamApology == "I apologize, but I encountered an error. Please try again."
TeamApologyArabic ==
    "{u0623}{u0639}{u062a}{u0630}{u0631}{u060c} {u0644}{u0642}{u062f} {u0648}{u0627}{u062c}{u0647}{u062a} {u062e}{u0637}{u0623}. {u064a}{u0631}{u062c}{u0649} {u0627}{u0644}{u0645}{u062d}{u0627}{u0648}{u0644}{u0629} {u0645}{u0631}{u0629} {u0623}{u062e}{u0631}{u0649}."

\* TranslationManager: the locales directory holds no file, so every
\* supported language is loaded as an empty dict.
SupportedLanguages == {"en", "ar", "ko"}
LoadedTranslations == [lang \in SupportedLanguages |-> EmptyDict]

\* translate without the fallback to the default language.
Translate_NoFallback(table, key, language) ==
    LET lang == IF language \notin SupportedLanguages THEN "en" ELSE language
        text == Get(Get(table, lang, EmptyDict), key, "")
    IN IF text = "" THEN key ELSE text

\* TranslationManager.translate(key, language), no format variables given.
Translate(table, key, language) ==
    LET lang == IF language \notin SupportedLanguages THEN "en" ELSE language
        text == Get(Get(table, lang, EmptyDict), key, "")
        fallback ==
            IF text = "" /\ lang # "en"
            THEN Get(Get(table, "en", EmptyDict), key, "")
            ELSE text
    IN IF fallback = "" THEN key ELSE fallback

\* message[:n]
Truncated(message, n) ==
    SubSeq(message, 1, IF Len(message) < n THEN Len(message) ELSE n)

\* The session_state a successful return reports.
SessionState(state) ==
    [user_profile |-> state.user_profile,
     interests |-> Len(state.medical_interests),
     recommendations |-> Len(state.recommended_clinics),
     reviews_analyzed |-> Len(state.analyzed_reviews)]

\* What process returns for the team's answer (LangDB not configured, the
\* four members of the unified team).
TeamReturn(response_content, language_code, state) ==
    [content |-> response_content,
     metadata |-> [agent |-> "Ahrie AI Team", timestamp |-> Timestamp,
                   language |-> language_code, langdb_enabled |-> FALSE,
                   session_state |-> SessionState(state),
                   performance |-> [model_used |-> "OpenAI", agents_count |-> 4]]]

\* ---- the except clauses ----

\* The three `except Exception as e` clauses, as the call's end.
ExceptClause_Reraise(agent, exc, language_code) == [kind |-> "raise", exc |-> exc]

ExceptClause(agent, exc, language_code) ==
    [kind |-> "return",
     value |->
        CASE agent = "CoordinatorAgent" ->
                [content |-> CoordinatorApology, metadata |-> [error |-> Str(exc)]]
          [] agent = "OrchestratorAgent" ->
                [content |-> OrchestratorApology,
                 metadata |-> [agent |-> "Orchestrator", error |-> Str(exc),
                               timestamp |-> Timestamp]]
          [] agent = "AhrieTeamOrchestratorV2" ->
                [content |-> IF language_code = "ar" THEN TeamApologyArabic
                             ELSE TeamApology,
                 metadata |-> [agent |-> "Ahrie AI Team", error |-> Str(exc),
                               timestamp |-> Timestamp]]]

Returns(value) == [kind |-> "return", value |-> value]

NewCall(agent, message, language_code, pc, end) ==
    [agent |-> agent, message |-> message, language_code |-> language_code,
     pc |-> pc, run |-> <<>>, raised |-> <<>>, end |-> end]

\* Call c ends with end; exc is what was raised on the way, if anything.
Ended(c, exc, end) ==
    calls' = [calls EXCEPT ![c].pc = "ended", ![c].raised = exc, ![c].end = <<end>>]

\* Call c ends with end after the awaited run gave response.
Answered(c, response, end) ==
    calls' = [calls EXCEPT ![c].pc = "ended", ![c].run = <<response>>, ![c].end = <<end>>]

\* After construction: no call yet, empty histories, team_state as
\* _create_unified_team sets it (of user_profile the language only; the
\* fields no process call reads or writes are left out).
AgentsInit ==
    /\ calls = <<>>
    /\ conversation_history = [agent \in {"CoordinatorAgent", "OrchestratorAgent"} |-> <<>>]
    /\ team_state = [user_profile |-> [language |-> "en"],
                     conversation_context |-> <<>>,
                     medical_interests |-> <<>>,
                     analyzed_reviews |-> <<>>,
                     recommended_clinics |-> <<>>]

\* CoordinatorAgent.process up to its await: the message is noted and its
\* intents found; specialist intents are answered on the spot, anything else
\* waits for the general agent.
CoordinatorProcess ==
    /\ Len(calls) < MaxCalls
    /\ \E message \in Messages :
          LET intents == AnalyzeIntentIntents(message) IN
          /\ conversation_history' =
                [conversation_history EXCEPT !["CoordinatorAgent"] =
                    Append(@, [role |-> "user", content |-> message])]
          /\ calls' = Append(calls,
                IF intents = <<"general_inquiry">>
                THEN NewCall("CoordinatorAgent", message, "", "awaiting", <<>>)
                ELSE NewCall("CoordinatorAgent", message, "", "ended",
                             <<Returns(CoordinatorReturn(RouteToSpecialists(intents)))>>))
    /\ UNCHANGED <<team_state, notAgents>>

\* The general agent answers.
CoordinatorRunReturns(c) ==
    /\ calls[c].agent = "CoordinatorAgent" /\ calls[c].pc = "awaiting"
    /\ \E response \in RunResponses :
          Answered(c, response, Returns(CoordinatorReturn(RouteToGeneral(response))))
    /\ UNCHANGED <<conversation_history, team_state, notAgents>>

\* OrchestratorAgent.process up to its await.
OrchestratorProcess ==
    /\ Len(calls) < MaxCalls
    /\ \E message \in Messages :
          /\ conversation_history' =
                [conversation_history EXCEPT !["OrchestratorAgent"] =
                    Append(@, [role |-> "user", content |-> message])]
          /\ calls' = Append(calls, NewCall("OrchestratorAgent", message, "", "awaiting", <<>>))
    /\ UNCHANGED <<team_state, notAgents>>

\* The orchestrator's agent answers.
OrchestratorRunReturns(c) ==
    /\ calls[c].agent = "OrchestratorAgent" /\ calls[c].pc = "awaiting"
    /\ \E response \in RunResponses :
          LET response_content == ResponseContent(response) IN
          /\ conversation_history' =
                [conversation_history EXCEPT !["OrchestratorAgent"] =
                    Append(@, [role |-> "assistant", content |-> response_content])]
          /\ Answered(c, response, Returns(OrchestratorReturn(response_content)))
    /\ UNCHANGED <<team_state, notAgents>>

\* AhrieTeamOrchestratorV2.process up to its await (the HH:MM in front of a
\* conversation_context entry is left out).
TeamProcess ==
    /\ Len(calls) < MaxCalls
    /\ \E message \in Messages, language_code \in LanguageCodes :
          /\ team_state' =
                [team_state EXCEPT !.user_profile.language = language_code,
                                   !.conversation_context =
                                        Append(@, Truncated(message, 50) \o "...")]
          /\ calls' = Append(calls,
                NewCall("AhrieTeamOrchestratorV2", message, language_code, "awaiting", <<>>))
    /\ UNCHANGED <<conversation_history, notAgents>>

\* The team answers; the answer is passed through translate unless the
\* language is English.
TeamRunReturns(c) ==
    /\ calls[c].agent = "AhrieTeamOrchestratorV2" /\ calls[c].pc = "awaiting"
    /\ \E response \in RunResponses :
          LET language_code == calls[c].language_code
              response_content ==
                  IF language_code # "en"
                  THEN Translate(LoadedTranslations, ResponseContent(response), language_code)
                  ELSE ResponseContent(response)
          IN Answered(c, response, Returns(TeamReturn(response_content, language_code, team_state)))
    /\ UNCHANGED <<conversation_history, team_state, notAgents>>

\* The awaited run (the remote model call) raises.
RunRaises(c) ==
    /\ calls[c].pc = "awaiting"
    /\ \E exc \in Exceptions :
          Ended(c, <<exc>>, ExceptClause(calls[c].agent, exc, calls[c].language_code))
    /\ UNCHANGED <<conversation_history, team_state, notAgents>>

NextAgents ==
    \/ CoordinatorProcess
    \/ OrchestratorProcess
    \/ TeamProcess
    \/ \E c \in DOMAIN calls :
          \/ CoordinatorRunReturns(c)
          \/ OrchestratorRunReturns(c)
          \/ TeamRunReturns(c)
          \/ RunRaises(c)

-----------------------------------------------------------------------------
(***************************************************************************)
(* translations/i18n.py: TranslationManager.                               *)
(*                                                                         *)
(* _load_translations gives every supported language a dict: the content   *)
(* of its locale file, or {} when the file is missing or unreadable.  The  *)
(* model draws the locale files' contents from LocaleFiles.                *)
(***************************************************************************)

\* How many calls of translate a run of the model makes, at most.
MaxTranslateCalls == 1

\* The keys the locale files of the model may hold, and the keys asked for.
LocaleKeys == {"welcome_message", "error_message"}
AskedKeys == LocaleKeys \cup {"", "Rhinoplasty takes 1-2 hours."}

\* The languages asked for: the supported ones and two that are not.
AskedLanguages == SupportedLanguages \cup {"fr", ""}

\* The text a locale file of language lang may store for key: an empty one
\* or one of its own.
LocaleTexts(lang, key) == {"", lang \o ":" \o key}

\* The possible contents of the locale file of language lang; {} is also
\* what a missing or unreadable file is loaded as.
LocaleFiles(lang) ==
    UNION {{f \in [keys -> UNION {LocaleTexts(lang, key) : key \in keys}] :
               \A key \in keys : f[key] \in LocaleTexts(lang, key)} :
           keys \in SUBSET LocaleKeys}

\* After TranslationManager(): every supported language is loaded.
TranslateInit ==
    /\ translations \in {t \in [SupportedLanguages -> UNION {LocaleFiles(lang) : lang \in SupportedLanguages}] :
                            \A lang \in SupportedLanguages : t[lang] \in LocaleFiles(lang)}
    /\ translated = <<>>

TranslateIdle == translations = LoadedTranslations /\ translated = <<>>

\* translate(key, language)
TranslateCall ==
    /\ Len(translated) < MaxTranslateCalls
    /\ \E key \in AskedKeys, language \in AskedLanguages :
          translated' = Append(translated,
              [key |-> key, language |-> language,
               result |-> Translate(translations, key, language)])
    /\ UNCHANGED <<translations, notTranslate>>

NextTranslate == TranslateCall

-----------------------------------------------------------------------------
(***************************************************************************)
(* agents/team_orchestrator_v2.py: AhrieTeamOrchestratorV2.__init__ and    *)
(* the module's LangDB tracing initialisation.                             *)
(*                                                                         *)
(* Whether a provider's model class (LangDB, OpenRouter, OpenAIChat) can   *)
(* be built, and whether the services built afterwards can, is for the     *)
(* libraries to decide: a construction draws these outcomes.               *)
(***************************************************************************)

\* How many constructions a run of the model makes, at most.
MaxConstructions == 1

KeyNames == {"LANGDB_API_KEY", "LANGDB_PROJECT_ID", "OPENAI_API_KEY", "OPENROUTER_API_KEY"}

\* The values of a key: unset, or set.
KeyValues == {"", "key"}

\* The key names Settings has a field for (utils/config.py, lines 39 and
\* 44); getattr(settings, name, None) is None for the others.
SettingsFields == {"OPENAI_API_KEY", "OPENROUTER_API_KEY"}

Providers == <<"LangDB", "OpenRouter", "OpenAIChat">>

\* Python's `a or b` on strings and None.
PyOr(a, b) == IF a # "" THEN a ELSE b

\* os.getenv(name) or getattr(settings, name, None)
ApiKey(name) == PyOr(environ[name], settings_keys[name])

\* `self.use_langdb = False` after OpenRouter or OpenAI was chosen, lines
\* 110 and 125, left out.
UseLangdbAfterFallback_Kept(use_langdb) == use_langdb

UseLangdbAfterFallback(use_langdb) == FALSE

\* __init__ with builds[p] telling whether provider p's model can be built
\* and services whether the translator, the scraper and the team can.
Construct(builds, services) ==
    LET use_langdb0 == ApiKey("LANGDB_API_KEY") # "" /\ ApiKey("LANGDB_PROJECT_ID") # ""
        tried1 == use_langdb0 /\ langdb_initialized
        initialized1 == tried1 /\ builds["LangDB"]
        use_langdb1 == IF tried1 /\ ~builds["LangDB"] THEN FALSE ELSE use_langdb0
        tried2 == ~initialized1 /\ ApiKey("OPENROUTER_API_KEY") # ""
        initialized2 == initialized1 \/ (tried2 /\ builds["OpenRouter"])
        use_langdb2 == IF tried2 /\ builds["OpenRouter"]
                       THEN UseLangdbAfterFallback(use_langdb1) ELSE use_langdb1
        tried3 == ~initialized2 /\ ApiKey("OPENAI_API_KEY") # ""
        initialized3 == initialized2 \/ (tried3 /\ builds["OpenAIChat"])
        use_langdb3 == IF tried3 /\ builds["OpenAIChat"]
                       THEN UseLangdbAfterFallback(use_langdb2) ELSE use_langdb2
        model == IF tried3 /\ builds["OpenAIChat"] THEN "OpenAIChat"
                 ELSE IF tried2 /\ builds["OpenRouter"] THEN "OpenRouter"
                 ELSE IF initialized1 THEN "LangDB"
                 ELSE "None"
    IN [tried |-> [p \in Range(Providers) |->
                      CASE p = "LangDB" -> tried1
                        [] p = "OpenRouter" -> tried2
                        [] p = "OpenAIChat" -> tried3],
        model |-> model,
        use_langdb |-> use_langdb3,
        raised |-> IF ~initialized3 \/ model = "None" THEN "ValueError"
                   ELSE IF ~services THEN "service error"
                   ELSE "none"]

ConstructInit ==
    /\ environ \in [KeyNames -> KeyValues]
    /\ settings_keys \in {f \in [KeyNames -> KeyValues] :
                             \A name \in KeyNames \ SettingsFields : f[name] = ""}
    /\ langdb_initialized \in BOOLEAN
    /\ constructed = <<>>

ConstructIdle ==
    /\ environ = [name \in KeyNames |-> ""]
    /\ settings_keys = [name \in KeyNames |-> ""]
    /\ langdb_initialized = FALSE
    /\ constructed = <<>>

\* AhrieTeamOrchestratorV2()
NewOrchestrator ==
    /\ Len(constructed) < MaxConstructions
    /\ \E builds \in [Range(Providers) -> BOOLEAN], services \in BOOLEAN :
          constructed' = Append(constructed,
              [builds |-> builds, services |-> services,
               outcome |-> Construct(builds, services)])
    /\ UNCHANGED <<environ, settings_keys, langdb_initialized, notConstruct>>

NextConstruct == NewOrchestrator

-----------------------------------------------------------------------------
(***************************************************************************)
(* agents/team_orchestrator_v2.py: _search_youtube_reviews_api, the tool   *)
(* the review analyst calls.                                               *)
(*                                                                         *)
(* It runs YouTubeScraper.search_and_analyze_reviews to its end           *)
(* (run_until_complete) and has no await of its own: one call is one step. *)
(* scrapers/youtube_scraper.py defines no search_and_analyze_reviews; what *)
(* it gives is taken from how the tool and the test scripts read it: a     *)
(* list of video dicts (title, channel_title, view_count, video_id,        *)
(* insights), or an exception.  json.dumps(response) is the tagged value   *)
(* [kind |-> "json", doc |-> response].                                    *)
(***************************************************************************)

\* How many searches a run of the model makes, at most.
MaxSearches == 2

\* How many videos one search yields, at most.
MaxVideos == 2

Procedures == {"rhinoplasty", "double eyelid"}

\* The analysed videos a search may yield.
Videos ==
    { [video_id |-> "vid1", title |-> "My rhinoplasty in Seoul", channel_title |-> "Noor",
       view_count |-> 1200,
       insights |-> [has_transcript |-> TRUE, mentions_pain |-> TRUE, snippet |-> "no pain"]],
      [video_id |-> "vid2", title |-> "Before and after",
       insights |-> [has_transcript |-> FALSE, error |-> "no transcript"]],
      [channel_title |-> "Clinic channel"] }

VideoLists == UNION {[1..n -> Videos] : n \in 0..MaxVideos}

\* What the search raises: the scraper's own errors, and those of running
\* it (the missing method, a loop that is already running).
SearchExceptions ==
    { [type |-> "AttributeError",
       arg |-> "'YouTubeScraper' object has no attribute 'search_and_analyze_reviews'"],
      [type |-> "RuntimeError", arg |-> "This event loop is already running"] }

\* review_info of one video (lines 806-824).
ReviewInfo(video) ==
    LET insights == Get(video, "insights", EmptyDict)
        has_transcript == Get(insights, "has_transcript", FALSE)
        info == [title |-> Get(video, "title", "Unknown"),
                 channel |-> Get(video, "channel_title", "Unknown"),
                 views |-> Get(video, "view_count", 0),
                 video_id |-> Get(video, "video_id", "None"),
                 url |-> "https://youtube.com/watch?v=" \o Get(video, "video_id", "None"),
                 has_transcript |-> has_transcript]
    IN IF has_transcript
       THEN info @@ ("analysis" :>
               [mentions_pain |-> Get(insights, "mentions_pain", FALSE),
                mentions_recovery |-> Get(insights, "mentions_recovery", FALSE),
                mentions_satisfaction |-> Get(insights, "mentions_satisfaction", FALSE),
                mentions_cost |-> Get(insights, "mentions_cost", FALSE),
                transcript_snippet |-> Get(insights, "snippet", "")])
       ELSE info

\* Only the reviews with a transcript are stored.
StoredReviews_TranscriptsOnly(procedure, reviews_summary) ==
    LET kept == SelectSeq(reviews_summary, LAMBDA r : r["has_transcript"]) IN
    [i \in DOMAIN kept |->
        [procedure |-> procedure, video_id |-> kept[i]["video_id"], has_analysis |-> TRUE]]

\* The entries added to team_state["analyzed_reviews"] (lines 829-836).
StoredReviews(procedure, reviews_summary) ==
    [i \in DOMAIN reviews_summary |->
        [procedure |-> procedure,
         video_id |-> reviews_summary[i]["video_id"],
         has_analysis |-> Get(reviews_summary[i], "has_transcript", FALSE)]]

\* What the tool returns for the reviews found (lines 839-849).
ReviewsResponse(procedure, reviews_summary) ==
    IF reviews_summary # <<>>
    THEN [kind |-> "json",
          doc |-> [procedure |-> procedure,
                   videos_found |-> Len(reviews_summary),
                   transcripts_analyzed |->
                       Len(SelectSeq(reviews_summary, LAMBDA r : r["has_transcript"])),
                   reviews |-> reviews_summary]]
    ELSE [kind |-> "text", text |-> "No YouTube reviews found for " \o procedure]

\* What the tool returns from its except clause (lines 851-853).
ReviewsError(exc) ==
    [kind |-> "text", text |-> "Error searching YouTube reviews: " \o Str(exc)]

ReviewsInit == searches = <<>>

\* _search_youtube_reviews_api(procedure): the search yields videos.
SearchYoutubeReviewsApi ==
    /\ Len(searches) < MaxSearches
    /\ \E procedure \in Procedures, analyzed_videos \in VideoLists :
          LET reviews_summary ==
                  [i \in DOMAIN analyzed_videos |-> ReviewInfo(analyzed_videos[i])]
          IN
          /\ team_state' =
                [team_state EXCEPT !.analyzed_reviews =
                    @ \o StoredReviews(procedure, reviews_summary)]
          /\ searches' = Append(searches,
                [procedure |-> procedure, yielded |-> <<analyzed_videos>>, raised |-> <<>>,
                 before |-> team_state, after |-> team_state',
                 returned |-> ReviewsResponse(procedure, reviews_summary)])
    /\ UNCHANGED <<calls, conversation_history, notReviews>>

\* _search_youtube_reviews_api(procedure): the search raises.
SearchYoutubeReviewsApiFails ==
    /\ Len(searches) < MaxSearches
    /\ \E procedure \in Procedures, exc \in SearchExceptions :
          searches' = Append(searches,
                [procedure |-> procedure, yielded |-> <<>>, raised |-> <<exc>>,
                 before |-> team_state, after |-> team_state,
                 returned |-> ReviewsError(exc)])
    /\ UNCHANGED <<calls, conversation_history, team_state, notReviews>>

NextReviews ==
    \/ SearchYoutubeReviewsApi
    \/ SearchYoutubeReviewsApiFails

-----------------------------------------------------------------------------
(***************************************************************************)
(* Specifications.                                                         *)
(***************************************************************************)

Init == IntentInit /\ FormatInit /\ DbInit /\ RateInit /\ WebInit /\ HandlerInit /\ AgentsInit /\ TranslateInit /\ ConstructInit /\ ReviewsInit

Next == NextIntent \/ NextFormat \/ NextDb \/ NextRate \/ NextWeb \/ NextHandler \/ NextAgents \/ NextTranslate \/ NextConstruct \/ NextReviews

Spec == Init /\ [][Next]_vars

\* The intent classifier alone.
InitIntentOnly == IntentInit /\ FormatIdle /\ DbInit /\ RateIdle /\ WebIdle /\ HandlerInit /\ AgentsInit /\ TranslateIdle /\ ConstructIdle /\ ReviewsInit
SpecIntent == InitIntentOnly /\ [][NextIntent]_vars

\* The database pool alone.
InitDbOnly == DbInit /\ IntentInit /\ FormatIdle /\ RateIdle /\ WebIdle /\ HandlerInit /\ AgentsInit /\ TranslateIdle /\ ConstructIdle /\ ReviewsInit
SpecDb == InitDbOnly /\ [][NextDb]_vars

\* The rate limiter alone.
InitRateOnly == RateInit /\ IntentInit /\ FormatIdle /\ DbInit /\ WebIdle /\ HandlerInit /\ AgentsInit /\ TranslateIdle /\ ConstructIdle /\ ReviewsInit
SpecRate == InitRateOnly /\ [][NextRate]_vars

\* The webhook receiver alone.
InitWebOnly == WebInit /\ IntentInit /\ FormatIdle /\ DbInit /\ RateIdle /\ HandlerInit /\ AgentsInit /\ TranslateIdle /\ ConstructIdle /\ ReviewsInit
SpecWeb == InitWebOnly /\ [][NextWeb]_vars

\* The message handler alone.
InitHandlerOnly == HandlerInit /\ IntentInit /\ FormatIdle /\ DbInit /\ RateIdle /\ WebIdle /\ AgentsInit /\ TranslateIdle /\ ConstructIdle /\ ReviewsInit
SpecHandler == InitHandlerOnly /\ [][NextHandler]_vars

\* The process methods alone.
InitAgentsOnly == AgentsInit /\ IntentInit /\ FormatIdle /\ DbInit /\ RateIdle /\ WebIdle /\ HandlerInit /\ TranslateIdle /\ ConstructIdle /\ ReviewsInit
SpecAgents == InitAgentsOnly /\ [][NextAgents]_vars

\* The translation manager alone.
InitTranslateOnly == TranslateInit /\ AgentsInit /\ IntentInit /\ FormatIdle /\ DbInit /\ RateIdle /\ WebIdle /\ HandlerInit /\ ConstructIdle /\ ReviewsInit
SpecTranslate == InitTranslateOnly /\ [][NextTranslate]_vars

\* The orchestrator's construction alone.
InitConstructOnly == ConstructInit /\ AgentsInit /\ IntentInit /\ FormatIdle /\ DbInit /\ RateIdle /\ WebIdle /\ HandlerInit /\ TranslateIdle /\ ReviewsInit
SpecConstruct == InitConstructOnly /\ [][NextConstruct]_vars

\* The review search.
InitReviewsOnly == ReviewsInit /\ AgentsInit /\ IntentInit /\ FormatIdle /\ DbInit /\ RateIdle /\ WebIdle /\ HandlerInit /\ TranslateIdle /\ ConstructIdle
SpecReviews == InitReviewsOnly /\ [][NextReviews]_vars

\* The formatter alone.
InitFormatOnly == FormatInit /\ IntentInit /\ DbInit /\ RateIdle /\ WebIdle /\ HandlerInit /\ AgentsInit /\ TranslateIdle /\ ConstructIdle /\ ReviewsInit
SpecFormat == InitFormatOnly /\ [][NextFormat]_vars


-----------------------------------------------------------------------------
(***************************************************************************)
(* Properties of _analyze_query_intent, checked under SpecIntent.          *)
(***************************************************************************)

\* k occurs in s: s is some prefix, then k, then some suffix.
Occurs(k, s) ==
    \E i \in 0..Len(s) :
        /\ i + Len(k) <= Len(s)
        /\ SubSeq(s, 1, i) \o k \o SubSeq(s, i + Len(k) + 1, Len(s)) = s

\* The position of a tag in the fixed order.
TagPosition(t) == CHOOSE i \in 1..Len(IntentOrder) : IntentOrder[i] = t

\* C4: a topic tag is in detected_intents if and only if one of the tag's
\* keywords occurs in the lower-cased query; the tags are in the fixed order
\* medical, cultural, review, location, female_specific, each at most once;
\* a query no keyword occurs in yields the empty list.
C4_DetectedIntents ==
    \A n \in 1..Len(analysis) :
        LET d == analysis[n].detected_intents
            ql == Lower(analysis[n].query)
        IN  /\ Range(d) \subseteq Range(IntentOrder)
            /\ \A t \in Range(IntentOrder) :
                   (t \in Range(d)) <=> (\E k \in IntentKeywords(t) : Occurs(k, ql))
            /\ \A i, j \in 1..Len(d) :
                   i < j => TagPosition(d[i]) < TagPosition(d[j])
            /\ (\A t \in Range(IntentOrder) : \A k \in IntentKeywords(t) : ~Occurs(k, ql))
                   => d = <<>>

\* C4 witness: a query typed with capitals was analysed and two tags found.
C4_Witness ==
    /\ analysis # <<>>
    /\ analysis[1].query = "NEARlady"
    /\ analysis[1].detected_intents = <<"location", "female_specific">>

\* C5 (as claimed): required_agents is never empty; Medical Expert iff
\* medical or female_specific was detected, Cultural Advisor iff cultural,
\* Review Analyst iff review, and the Coordinator exactly when none of the
\* three specialists is required.
C5_RequiredAgentsNonEmpty ==
    \A n \in 1..Len(analysis) :
        LET d == Range(analysis[n].detected_intents)
            r == Range(analysis[n].required_agents)
        IN  /\ analysis[n].required_agents # <<>>
            /\ ("Medical Expert" \in r) <=> ("medical" \in d \/ "female_specific" \in d)
            /\ ("Cultural Advisor" \in r) <=> ("cultural" \in d)
            /\ ("Review Analyst" \in r) <=> ("review" \in d)
            /\ ("Coordinator" \in r)
                   <=> (r \cap {"Medical Expert", "Cultural Advisor", "Review Analyst"} = {})

-----------------------------------------------------------------------------
(***************************************************************************)
(* Properties of _format_response, checked under SpecFormat.               *)
(***************************************************************************)

\* The three agent keys in the order of their sections.
SectionOrder == <<"medical", "reviews", "cultural">>

SectionHeader(k) ==
    CASE k = "medical" -> MedicalHeader
      [] k = "reviews" -> ReviewsHeader
      [] k = "cultural" -> CulturalHeader

SectionPlaceholder(k) ==
    CASE k = "medical" -> MedicalPlaceholder
      [] k = "reviews" -> ReviewsPlaceholder
      [] k = "cultural" -> CulturalPlaceholder

\* The section of key k: its header line, then the agent's content, or the
\* agent's placeholder when its dict has no content.
ExpectedSection(k, d) ==
    SectionHeader(k) \o (IF "content" \in DOMAIN d THEN d["content"] ELSE SectionPlaceholder(k))

\* The sections with a blank line between one and the next.
RECURSIVE BlankLineSeparated(_)
BlankLineSeparated(sections) ==
    IF Len(sections) = 0 THEN ""
    ELSE IF Len(sections) = 1 THEN sections[1]
    ELSE BlankLineSeparated(SubSeq(sections, 1, Len(sections) - 1))
         \o "\n\n" \o sections[Len(sections)]

\* C6: for a result whose data holds any of medical, reviews, cultural the
\* reply is one section per key present, none for a key absent, in the order
\* medical, reviews, cultural, each its header followed by the content (the
\* placeholder when there is no content), joined by a blank line.
C6_FormatSections ==
    (/\ fmt_output # <<>>
     /\ fmt_result.type = "dict"
     /\ "data" \in DOMAIN fmt_result.items
     /\ DOMAIN fmt_result.items["data"] \cap Range(SectionOrder) # {})
    => LET data == fmt_result.items["data"]
           present == SelectSeq(SectionOrder, LAMBDA k : k \in DOMAIN data)
       IN  fmt_output[1] =
               BlankLineSeparated([i \in 1..Len(present) |->
                                       ExpectedSection(present[i], data[present[i]])])

\* C6 witness: a result with all three keys (and a fourth the formatter does
\* not know), one agent without content, has been formatted.
C6_Witness ==
    /\ fmt_output # <<>>
    /\ fmt_result.type = "dict"
    /\ "data" \in DOMAIN fmt_result.items
    /\ DOMAIN fmt_result.items["data"] = DataKeys
    /\ "content" \notin DOMAIN fmt_result.items["data"]["medical"]
    /\ "content" \in DOMAIN fmt_result.items["data"]["reviews"]
    /\ "content" \in DOMAIN fmt_result.items["data"]["cultural"]
    /\ fmt_result.items["data"]["reviews"]["content"] # fmt_result.items["data"]["cultural"]["content"]

-----------------------------------------------------------------------------
(***************************************************************************)
(* Properties of the database pool, checked under SpecDb.                  *)
(***************************************************************************)

\* Before call number i: some init_db has returned normally and no close_db
\* has returned normally since.
InitialisedBefore(i) ==
    \E j \in 1..(i - 1) :
        /\ db_log[j].op = "init_db" /\ db_log[j].outcome = "returned"
        /\ \A k \in (j + 1)..(i - 1) :
               ~(db_log[k].op = "close_db" /\ db_log[k].outcome = "returned")

\* C10 (as claimed): get_db_pool returns the pool exactly when an init_db has
\* succeeded and no close_db has completed since, and raises RuntimeError in
\* every other state; close_db on an uninitialised pool returns without
\* raising.
C10_PoolIffInitialised ==
    \A i \in 1..Len(db_log) :
        /\ db_log[i].op = "get_db_pool" =>
               /\ (db_log[i].outcome = "returned") <=> InitialisedBefore(i)
               /\ (db_log[i].outcome = "RuntimeError") <=> ~InitialisedBefore(i)
        /\ (db_log[i].op = "close_db" /\ db_log[i].pool = 0) =>
               db_log[i].outcome = "returned"

-----------------------------------------------------------------------------
(***************************************************************************)
(* Properties of RateLimitMiddleware, checked under SpecRate.              *)
(***************************************************************************)

\* The requests of the log that were rate-limited and passed on for ip.
Admitted(ip) ==
    {i \in 1..Len(rate_log) :
        rate_log[i].ip = ip /\ ~rate_log[i].health /\ rate_log[i].passed_on}

\* Those of them that arrived in the window (t - window_seconds, t].
AdmittedInWindow(ip, t) ==
    {i \in Admitted(ip) : t - window_seconds < rate_log[i].time /\ rate_log[i].time <= t}

\* C8: for every client IP and every instant t at most max_requests
\* non-health requests of that IP that arrived in (t - window_seconds, t]
\* were passed on to call_next; and a request arriving while max_requests
\* admitted requests of its IP are inside the window is answered 429 and is
\* not passed on.
C8_AtMostMaxPerWindow ==
    /\ \A ip \in ClientIPs : \A t \in 0..now :
           Cardinality(AdmittedInWindow(ip, t)) <= max_requests
    /\ \A i \in 1..Len(rate_log) :
           (/\ ~rate_log[i].health
            /\ Cardinality({j \in AdmittedInWindow(rate_log[i].ip, rate_log[i].time) : j < i})
                   >= max_requests)
           => (rate_log[i].status = "429" /\ ~rate_log[i].passed_on)

\* C8 witness: a client used up its limit of two with requests at two
\* different instants and was answered 429 for its next request.
C8_Witness ==
    /\ max_requests = 2
    /\ \E i, j, k \in 1..Len(rate_log) :
          /\ i < j /\ j < k
          /\ rate_log[i].ip = rate_log[k].ip /\ rate_log[j].ip = rate_log[k].ip
          /\ rate_log[i].passed_on /\ ~rate_log[i].health
          /\ rate_log[j].passed_on /\ ~rate_log[j].health
          /\ rate_log[j].time > rate_log[i].time
          /\ rate_log[k].status = "429"

\* How often x occurs in the sequence s.
Occurrences(s, x) == Cardinality({n \in 1..Len(s) : s[n] = x})

\* C9: a client answered 429 that sends its next request window_seconds or
\* more after the rejection is admitted; and a rejection adds no timestamp:
\* every timestamp kept for a client is that of an admitted request of it.
C9_AdmittedAfterWindow ==
    /\ \A i, k \in 1..Len(rate_log) :
           (/\ i < k
            /\ rate_log[i].ip = rate_log[k].ip
            /\ rate_log[i].status = "429"
            /\ ~rate_log[k].health
            /\ \A j \in (i + 1)..(k - 1) : rate_log[j].ip # rate_log[i].ip
            /\ rate_log[k].time - rate_log[i].time >= window_seconds)
           => rate_log[k].passed_on
    /\ \A ip \in DOMAIN request_counts : \A ts \in Range(request_counts[ip]) :
           Occurrences(request_counts[ip], ts)
               <= Cardinality({i \in Admitted(ip) : rate_log[i].time = ts})

\* C9 witness: a client was answered 429 and, a full window later, admitted
\* with its next request.
C9_Witness ==
    \E i \in 1..(Len(rate_log) - 1) :
        /\ rate_log[i].status = "429"
        /\ rate_log[i + 1].ip = rate_log[i].ip
        /\ ~rate_log[i + 1].health
        /\ rate_log[i + 1].time >= rate_log[i].time + window_seconds
        /\ rate_log[i + 1].passed_on

-----------------------------------------------------------------------------
(***************************************************************************)
(* The webhook receiver.                                                   *)
(***************************************************************************)

\* The update of a request holds a 'message' or a 'callback_query'.
HasMessageOrCallback(req) ==
    /\ req.json = "dict"
    /\ \/ "message" \in DOMAIN req.update
       \/ "callback_query" \in DOMAIN req.update

\* C1: once lifespan has completed and with DEBUG on, every update delivered
\* to telegram_webhook is answered with an ok acknowledgement, and exactly
\* one process_telegram_message task is added for it if and only if the
\* update holds a 'message' or a 'callback_query' (none otherwise); the task
\* has not run when the answer is given.
C1_EnqueuedIffMessageOrCallback ==
    settings.DEBUG =>
        \A i \in DOMAIN web_log :
            LET e == web_log[i] IN
            /\ e.response.status = 200
            /\ e.response.ok
            /\ e.enqueued = IF HasMessageOrCallback(e.request) THEN 1 ELSE 0
            /\ Len(background_tasks) >= e.pending_before + e.enqueued

\* C7: with DEBUG off, a request whose X-Telegram-Bot-Api-Secret-Token header
\* does not verify against its body is answered with HTTP 401
\* 'Invalid signature'.
C7_InvalidSignature401 ==
    ~settings.DEBUG =>
        \A i \in DOMAIN web_log :
            LET e == web_log[i] IN
            ~VerifyTelegramWebhook(e.request.raw, e.request.signature) =>
                /\ e.response.status = 401
                /\ e.response.description = "Invalid signature"

-----------------------------------------------------------------------------
(***************************************************************************)
(* The message handler.                                                    *)
(***************************************************************************)

\* The run handles a text message that is not a command.
NonCommand(run) ==
    /\ run.message_data["message_type"] # "callback"
    /\ ~StartsWith(run.message_data["text"], "/")

\* The steps of a non-command message, in the order they are to happen.
StepOrder ==
    <<"typing", "store_user", "process_call", "process_return", "send_reply",
      "store_assistant">>

\* An event as a step: the two stores are told apart by their role.
StepOf(event) ==
    IF event.kind = "store" THEN "store_" \o event.role ELSE event.kind

\* The steps a run has taken, the notice of a failure left out.
StepsTaken(run) ==
    LET steps == [i \in DOMAIN run.events |-> StepOf(run.events[i])] IN
    SelectSeq(steps, LAMBDA step : step # "send_error")

IsPrefix(s, t) == Len(s) <= Len(t) /\ SubSeq(t, 1, Len(s)) = s

\* C2: for every non-command text message the steps typing indicator, user
\* message stored, orchestrator.process called with the message text,
\* process returned, reply sent to the originating chat, assistant reply
\* stored happen in this order and each at most once; hence no reply is sent
\* before process has returned and nothing is stored as 'assistant' that was
\* not sent first.  A message handled without an exception takes all of them.
C2_StepsInOrder ==
    \A r \in DOMAIN runs :
        LET run == runs[r]
            sent == {i \in DOMAIN run.events : run.events[i].kind = "send_reply"}
        IN
        NonCommand(run) =>
            /\ IsPrefix(StepsTaken(run), StepOrder)
            /\ run.pc = "done" /\ run.events[Len(run.events)].kind # "send_error"
                  => StepsTaken(run) = StepOrder
            /\ \A i \in DOMAIN run.events :
                  LET event == run.events[i] IN
                  /\ event.kind = "typing" => event.chat_id = run.message_data["chat_id"]
                  /\ event.kind = "process_call" => event.text = run.message_data["text"]
                  /\ event.kind = "send_reply" =>
                        /\ event.chat_id = run.message_data["chat_id"]
                        /\ \E j \in 1..(i - 1) : run.events[j].kind = "process_return"
                  /\ event.kind = "store" /\ event.role = "assistant" =>
                        \E j \in sent : j < i /\ run.events[j].text = event.text

\* Two messages in flight at once: one has been answered and its answer
\* stored, the other is still waiting for the orchestrator.
C2_Witness ==
    \E r, q \in DOMAIN runs :
        /\ NonCommand(runs[r]) /\ runs[r].pc = "done"
        /\ StepsTaken(runs[r]) = StepOrder
        /\ NonCommand(runs[q]) /\ runs[q].pc = "processing"

-----------------------------------------------------------------------------
(***************************************************************************)
(* The process methods.                                                    *)
(***************************************************************************)

\* The apology of each process method: one string per method, and for the
\* team a second one for Arabic; none depends on the message or the
\* exception.
FixedApology(agent, language_code) ==
    CASE agent = "CoordinatorAgent" -> CoordinatorApology
      [] agent = "OrchestratorAgent" -> OrchestratorApology
      [] agent = "AhrieTeamOrchestratorV2" ->
            IF language_code = "ar" THEN TeamApologyArabic ELSE TeamApology

\* C3: in each of the three process methods an exception raised while the
\* message is processed (the remote run included) is caught: the call
\* returns a dict whose content is the method's fixed apology and whose
\* metadata.error is the exception's text, and no call ends by raising.
C3_ExceptionsBecomeApologies ==
    \A c \in DOMAIN calls :
        LET call == calls[c] IN
        /\ call.end # <<>> => call.end[1].kind = "return"
        /\ call.raised # <<>> =>
              /\ call.end # <<>>
              /\ call.end[1].kind = "return"
              /\ call.end[1].value.content = FixedApology(call.agent, call.language_code)
              /\ "error" \in DOMAIN call.end[1].value.metadata
              /\ call.end[1].value.metadata.error = Str(call.raised[1])

\* The remote run has failed in two calls: one of the team in Arabic with a
\* KeyError, one of another agent.
C3_Witness ==
    \E c, d \in DOMAIN calls :
        /\ calls[c].agent = "AhrieTeamOrchestratorV2" /\ calls[c].language_code = "ar"
        /\ calls[c].raised = <<[type |-> "KeyError", arg |-> "choices"]>>
        /\ calls[c].end[1].value.content = TeamApologyArabic
        /\ calls[c].end[1].value.metadata.error = "'choices'"
        /\ calls[d].agent # "AhrieTeamOrchestratorV2"
        /\ calls[d].raised # <<>> /\ calls[d].pc = "ended"

-----------------------------------------------------------------------------
(***************************************************************************)
(* The translation manager.                                                *)
(***************************************************************************)

\* The text stored for key in language lang, "" when there is none.
StoredText(lang, key) ==
    IF key \in DOMAIN translations[lang] THEN translations[lang][key] ELSE ""

\* C11: translate(key, language) treats an unsupported language as 'en' and
\* gives the non-empty text stored for key in that language if there is one,
\* else the non-empty 'en' text for key if there is one, else the key; for a
\* non-empty key the result is never empty.
C11_FallbackChain ==
    \A i \in DOMAIN translated :
        LET call == translated[i]
            lang == IF call.language \in SupportedLanguages THEN call.language ELSE "en"
        IN
        /\ call.result =
              IF StoredText(lang, call.key) # "" THEN StoredText(lang, call.key)
              ELSE IF StoredText("en", call.key) # "" THEN StoredText("en", call.key)
              ELSE call.key
        /\ call.key # "" => call.result # ""

\* An Arabic text is stored but empty, an English one is there: the English
\* one is given.
C11_Witness ==
    \E i \in DOMAIN translated :
        /\ translated[i].key = "welcome_message" /\ translated[i].language = "ar"
        /\ "welcome_message" \in DOMAIN translations["ar"]
        /\ translations["ar"]["welcome_message"] = ""
        /\ translated[i].result = "en:welcome_message"

-----------------------------------------------------------------------------
(***************************************************************************)
(* The orchestrator's construction.                                        *)
(***************************************************************************)

\* The key of a name is set, in the environment or in settings.
KeySet(name) == environ[name] # "" \/ settings_keys[name] # ""

\* The provider may be tried at all.
Eligible(provider) ==
    CASE provider = "LangDB" ->
            KeySet("LANGDB_API_KEY") /\ KeySet("LANGDB_PROJECT_ID") /\ langdb_initialized
      [] provider = "OpenRouter" -> KeySet("OPENROUTER_API_KEY")
      [] provider = "OpenAIChat" -> KeySet("OPENAI_API_KEY")

\* The providers that may be tried and can be built, in priority order.
Initialising(builds) ==
    SelectSeq(Providers, LAMBDA provider : Eligible(provider) /\ builds[provider])

\* C12: a construction selects the model of the first provider, in the order
\* LangDB, OpenRouter, OpenAI, that may be tried and initialises; no
\* provider is tried that may not be; ValueError is raised if and only if
\* none initialised; after a successful construction use_langdb is true
\* exactly when the selected model is the LangDB one.
C12_ProviderPriority ==
    \A i \in DOMAIN constructed :
        LET c == constructed[i]
            initialising == Initialising(c.builds)
        IN
        /\ \A provider \in Range(Providers) : c.outcome.tried[provider] => Eligible(provider)
        /\ (c.outcome.raised = "ValueError") = (initialising = <<>>)
        /\ initialising # <<>> => c.outcome.model = initialising[1]
        /\ c.outcome.raised = "none" => c.outcome.use_langdb = (c.outcome.model = "LangDB")

\* LangDB is configured but its tracing was not initialised; OpenRouter has
\* no key, OpenAI is chosen.
C12_Witness ==
    \E i \in DOMAIN constructed :
        /\ KeySet("LANGDB_API_KEY") /\ KeySet("LANGDB_PROJECT_ID") /\ ~langdb_initialized
        /\ ~KeySet("OPENROUTER_API_KEY")
        /\ constructed[i].outcome.raised = "none"
        /\ constructed[i].outcome.model = "OpenAIChat"
        /\ ~constructed[i].outcome.use_langdb

\* C13: every dict AhrieTeamOrchestratorV2.process returns, processing
\* succeeded or failed, has metadata.language equal to the language_code
\* argument and a metadata.session_state with the fields user_profile,
\* interests, recommendations and reviews_analyzed.
C13_LanguageAndSessionState ==
    \A c \in DOMAIN calls :
        LET call == calls[c] IN
        call.agent = "AhrieTeamOrchestratorV2" /\ call.end # <<>> /\ call.end[1].kind = "return" =>
            LET metadata == call.end[1].value.metadata IN
            /\ "language" \in DOMAIN metadata
            /\ metadata.language = call.language_code
            /\ "session_state" \in DOMAIN metadata
            /\ DOMAIN metadata.session_state =
                  {"user_profile", "interests", "recommendations", "reviews_analyzed"}

-----------------------------------------------------------------------------
(***************************************************************************)
(* The webhook receiver: signatures and errors.                            *)
(***************************************************************************)

\* The request's header does not verify against its body.
BadSignature(req) == ~VerifyTelegramWebhook(req.raw, req.signature)

\* C14: with DEBUG off, a request whose signature header does not verify
\* causes no message processing: its handling is given up at the signature
\* check, no process_telegram_message task is added for it, and no task
\* waiting for the message handler carries its update.
C14_NoProcessingOnBadSignature ==
    ~settings.DEBUG =>
        \A i \in DOMAIN web_log :
            LET e == web_log[i] IN
            BadSignature(e.request) =>
                /\ e.raised = "HTTPException(401, Invalid signature)"
                /\ e.enqueued = 0
                /\ Len(background_tasks) = 0

\* DEBUG is off and a well-formed text message has come with a header that
\* is the digest of another body.
C14_Witness ==
    /\ ~settings.DEBUG
    /\ \E i \in DOMAIN web_log :
          /\ web_log[i].request.raw = "text message"
          /\ web_log[i].request.signature = HmacHexDigest("another body")
          /\ web_log[i].enqueued = 0

\* C15: telegram_webhook answers every request with a JSON body holding
\* ok: true (HTTP 200), whatever exception was raised on the way.
C15_AlwaysOk ==
    \A i \in DOMAIN web_log :
        /\ web_log[i].response.status = 200
        /\ web_log[i].response.ok

\* Two requests have failed inside the handler, one of them at the
\* signature check, the other on an unparsable body or a missing field, and
\* both were answered.
C15_Witness ==
    \E i, j \in DOMAIN web_log :
        /\ web_log[i].raised = "HTTPException(401, Invalid signature)"
        /\ web_log[j].raised \in {"JSONDecodeError", "KeyError", "AttributeError: agents"}
        /\ web_log[i].response.description = "Error processed"
        /\ web_log[j].response.description = "Error processed"

\* C16: with DEBUG off, an update delivered with the (non-empty) secret
\* token that set_webhook registered in its X-Telegram-Bot-Api-Secret-Token
\* header passes verify_telegram_webhook, whatever its body, and is enqueued
\* when it holds a message or a callback query.
C16_RegisteredSecretVerifies ==
    ~settings.DEBUG /\ registered_secret # <<>> /\ registered_secret # <<"">> =>
        \A i \in DOMAIN web_log :
            LET e == web_log[i] IN
            e.request.signature = registered_secret[1] =>
                /\ VerifyTelegramWebhook(e.request.raw, e.request.signature)
                /\ e.raised # "HTTPException(401, Invalid signature)"
                /\ HasMessageOrCallback(e.request) => e.enqueued = 1

-----------------------------------------------------------------------------
(***************************************************************************)
(* The connection pool: init_db while a pool is held.                      *)
(***************************************************************************)

\* _db_pool after the i-th call: a close_db that returned has logged the
\* pool it closed (0 when there was none) and left None.
PoolAfter(i) ==
    IF db_log[i].op = "close_db" /\ db_log[i].outcome = "returned" THEN 0
    ELSE db_log[i].pool

\* _db_pool before the i-th call.
PoolBefore(i) == IF i = 1 THEN 0 ELSE PoolAfter(i - 1)

\* The calls of init_db that found no pool and left one.
CreatingCalls ==
    {i \in DOMAIN db_log :
        db_log[i].op = "init_db" /\ PoolBefore(i) = 0 /\ db_log[i].pool # 0}

\* C17: over a sequential series of calls, an init_db made while a pool is
\* held creates no pool and leaves the held pool as it is; at most one pool
\* is open at a time, and a pool that is open is the held one, the one the
\* next close_db closes.
C17_InitDbIdempotent ==
    /\ \A i \in DOMAIN db_log :
          db_log[i].op = "init_db" /\ PoolBefore(i) # 0 =>
              /\ db_log[i].pool = PoolBefore(i)
              /\ db_log[i].outcome = "returned"
    /\ pools_created = Cardinality(CreatingCalls)
    /\ Cardinality(pools_open) <= 1
    /\ pools_open \subseteq {db_pool} \ {0}
    /\ \A i \in DOMAIN db_log :
          db_log[i].op = "close_db" => db_log[i].pool = PoolBefore(i)

\* init_db, init_db again with the pool kept, close_db, and an init_db that
\* creates the second pool.
C17_Witness ==
    /\ Len(db_log) = 4
    /\ db_log[1].op = "init_db" /\ db_log[1].outcome = "returned" /\ db_log[1].pool = 1
    /\ db_log[2].op = "init_db" /\ db_log[2].outcome = "returned" /\ db_log[2].pool = 1
    /\ db_log[3].op = "close_db" /\ db_log[3].outcome = "returned" /\ db_log[3].pool = 1
    /\ db_log[4].op = "init_db" /\ db_log[4].pool = 2
    /\ pools_open = {2}

\* C18: when CoordinatorAgent.process handles a message whose intents are
\* exactly [general_inquiry] and the general agent's run succeeds, the
\* content of the returned reply contains the text that run produced.
C18_GeneralReplyHasAgentText ==
    \A c \in DOMAIN calls :
        LET call == calls[c] IN
        /\ call.agent = "CoordinatorAgent"
        /\ AnalyzeIntentIntents(call.message) = <<"general_inquiry">>
        /\ call.run # <<>>
        => /\ call.end # <<>>
           /\ call.end[1].kind = "return"
           /\ IsSubstring(ResponseContent(call.run[1]), call.end[1].value.content)

-----------------------------------------------------------------------------
\* The searches that yielded videos, and how many.
Yielded(i) == searches[i].raised = <<>>

VideosYielded(i) == Len(searches[i].yielded[1])

\* What a search added to team_state.analyzed_reviews.
Added(i) ==
    SubSeq(searches[i].after.analyzed_reviews,
           Len(searches[i].before.analyzed_reviews) + 1,
           Len(searches[i].after.analyzed_reviews))

\* A search extends analyzed_reviews and leaves the rest of team_state alone.
OnlyExtended(i) ==
    /\ searches[i].after.analyzed_reviews = searches[i].before.analyzed_reviews \o Added(i)
    /\ searches[i].after = [searches[i].before EXCEPT !.analyzed_reviews =
                                searches[i].after.analyzed_reviews]

\* A search that raised leaves team_state unchanged and returns an error string.
FailedSearchReturnsError(i) ==
    /\ searches[i].after = searches[i].before
    /\ searches[i].returned.kind = "text"
    /\ StartsWith(searches[i].returned.text, "Error searching YouTube reviews: ")

RECURSIVE TotalYielded(_)
\* The videos the first n searches yielded, all together.
TotalYielded(n) ==
    IF n = 0 THEN 0
    ELSE TotalYielded(n - 1) + (IF Yielded(n) THEN VideosYielded(n) ELSE 0)

\* The session_state process puts in its metadata counts the videos of all
\* the searches so far.
ResponsesCountStoredReviews ==
    SessionState(team_state).reviews_analyzed = TotalYielded(Len(searches))

=============================================================================
